---- MODULE Spec2Model ----
(***************************************************************************)
(* Model of the ink language server's process supervision and diagnostics  *)
(* publication: InklecateBackend (runInklecate, spawnInklecate and its     *)
(* event handlers, chooseOption, stopCurrentStory, parseErrorsOrRender-    *)
(* Story, testThatInklecateIsExecutable) and DiagnosticManager             *)
(* (notifyClientAndPushDiagnostics).                                       *)
(***************************************************************************)
EXTENDS Integers, Sequences, FiniteSets, TLC

(* ---------------------------- bounds ----------------------------------- *)

\* Number of runInklecate requests that reach the verification step.
MaxRuns == 2

\* The same, where the verification and the spawn failures are explored.
MaxVerifyRuns == 1

\* Total number of stdout "data" events over all processes.
MaxChunks == 2

\* The same, where the singleton slot is explored.
MaxSlotChunks == 1

\* Total number of chooseOption writes over all processes.
MaxChoices == 1

(* ---------------------------- values ----------------------------------- *)

\* The empty singleton slot (`undefined`).
None == 0

Undefined == "undefined"

Platforms == {"MacOs", "Windows", "Other"}

InkErrorTypes == {"ERROR", "WARNING", "RUNTIME ERROR", "RUNTIME WARNING", "TODO"}

\* DiagnosticSeverity of vscode-languageserver.
SeverityError == 1
SeverityWarning == 2
SeverityInformation == 3

\* Paths are sequences of segments below the filesystem root.
WorkspaceRoot == <<"ws">>
TempDir == <<"tmp", "uuid">>

\* InkWorkspace values handed to runInklecate: one mirrored, one whose
\* temporaryCompilationDirectory is still undefined.
MirroredWorkspace ==
  [uri |-> [scheme |-> "file", path |-> WorkspaceRoot], hasTempDir |-> TRUE, tempDir |-> TempDir]

UnmirroredWorkspace ==
  [uri |-> [scheme |-> "file", path |-> WorkspaceRoot], hasTempDir |-> FALSE, tempDir |-> <<>>]

InkWorkspaces == {MirroredWorkspace, UnmirroredWorkspace}

\* Text documents the client may have open (TextDocuments.all()).
MainDoc == [scheme |-> "file", path |-> <<"ws", "main.ink">>]
SubDoc == [scheme |-> "file", path |-> <<"ws", "sub", "a.ink">>]

OpenDocumentChoices == {<<>>, <<MainDoc>>, <<MainDoc, SubDoc>>}

\* PartialInkConfigurationSettings without any field.
AbsentSettings ==
  [inklecateExecutablePath |-> Undefined, mainStoryPath |-> <<>>, runThroughMono |-> Undefined]

\* PartialInkConfigurationSettings received with a request.  runThroughMono
\* is "true", "false", a path to mono, or Undefined.
SettingsChoices ==
  { [inklecateExecutablePath |-> Undefined, mainStoryPath |-> <<>>, runThroughMono |-> Undefined],
    [inklecateExecutablePath |-> "inklecate", mainStoryPath |-> <<"main.ink">>, runThroughMono |-> "false"],
    [inklecateExecutablePath |-> "inklecate", mainStoryPath |-> <<>>, runThroughMono |-> "true"] }

(* ---------------------------- state ------------------------------------ *)

VARIABLES
  platform,          \* process.platform as classified by determinePlatform
  macInstalled,      \* whether the prebuilt macOS binary is in vendor/
  openDocs,          \* documentManager.documents.all(), in order
  inklecateProcess,  \* the singleton slot: None or the id of a process
  procs,             \* per request: the request, the child process and its closure
  sent,              \* everything sent to the client over the connection, in order
  shown,             \* messages shown to the user or written to the console
  workspaceManager,  \* the fields of the WorkspaceManager
  client,            \* what the client holds: resource-scoped settings, workspace folders
  disk,              \* the files on disk, by absolute path
  mirrors,           \* the calls of prepareTempDirectoryForCompilation, in order
  passes,            \* the calls of initializeInkWorkspaces, in order
  requests,          \* the document changes and the compile or play commands, in order
  binaryCheck,       \* the result of checkPlatformAndDownloadBinaryDependency, or "pending"
  unitCall           \* a call of a helper on its own: its arguments and what it returned

vars ==
  <<platform, macInstalled, openDocs, workspaceManager, client, disk, mirrors,
                 passes, requests, binaryCheck, passes,
    requests, binaryCheck, unitCall, inklecateProcess, procs, sent, shown>>

Runs == 1..MaxRuns

(* ---------------------------- path helpers ----------------------------- *)

RECURSIVE Normalize(_, _)
\* Path.normalize on segments: drops ".", resolves "..".
Normalize(segs, acc) ==
  IF segs = <<>> THEN acc
  ELSE IF Head(segs) = "." THEN Normalize(Tail(segs), acc)
  ELSE IF Head(segs) = ".." /\ acc # <<>> THEN Normalize(Tail(segs), SubSeq(acc, 1, Len(acc) - 1))
  ELSE Normalize(Tail(segs), Append(acc, Head(segs)))

\* Path.join(a, b, c)
PathJoin3(a, b, c) == Normalize(a \o b \o c, <<>>)

\* Path.join(a, b)
PathJoin(a, b) == Normalize(a \o b, <<>>)

\* Path.dirname of a relative path: "." when there is no directory part.
Dirname(p) == IF Len(p) <= 1 THEN <<".">> ELSE SubSeq(p, 1, Len(p) - 1)

\* Uri.parse(uri).fsPath
FsPath(uri) == uri.path

\* `${mainStoryTempPath}.json`
WithJsonSuffix(p) == [path |-> p, suffix |-> ".json"]

(* ---------------------------- settings --------------------------------- *)

isDefaultMacOsInklecateInstalled == macInstalled

isRunThroughMono ==
  LET isMacInklecateValid == (platform = "MacOs" /\ isDefaultMacOsInklecateInstalled)
  IN  ~isMacInklecateValid /\ platform # "Windows"

defaultInklecatePath ==
  IF platform = "MacOs" /\ isDefaultMacOsInklecateInstalled
    THEN "vendor/inklecate"
    ELSE "vendor/inklecate.exe"

getDefaultSettings ==
  [inklecateExecutablePath |-> defaultInklecatePath,
   mainStoryPath |-> <<"main.ink">>,
   runThroughMono |-> IF isRunThroughMono THEN "true" ELSE "false"]

mergeSettingsFalsyMono(settings, defaultSettings) ==
  [inklecateExecutablePath |->
     IF settings.inklecateExecutablePath = Undefined \/ settings.inklecateExecutablePath = ""
       THEN defaultSettings.inklecateExecutablePath
       ELSE settings.inklecateExecutablePath,
   mainStoryPath |->
     IF settings.mainStoryPath = <<>>
       THEN defaultSettings.mainStoryPath
       ELSE settings.mainStoryPath,
   runThroughMono |->
     IF settings.runThroughMono \in {Undefined, "false", ""}
       THEN defaultSettings.runThroughMono
       ELSE settings.runThroughMono]

mergeSettings(settings, defaultSettings) ==
  [inklecateExecutablePath |->
     IF settings.inklecateExecutablePath = Undefined \/ settings.inklecateExecutablePath = ""
       THEN defaultSettings.inklecateExecutablePath
       ELSE settings.inklecateExecutablePath,
   mainStoryPath |->
     IF settings.mainStoryPath = <<>>
       THEN defaultSettings.mainStoryPath
       ELSE settings.mainStoryPath,
   runThroughMono |->
     IF settings.runThroughMono = Undefined
       THEN defaultSettings.runThroughMono
       ELSE settings.runThroughMono]

\* JavaScript truthiness of settings.runThroughMono.
Truthy(runThroughMono) == runThroughMono \notin {"false", "", Undefined}

getMonoPath(runThroughMono) ==
  IF runThroughMono \notin {"true", "false", Undefined}
    THEN runThroughMono
    ELSE IF runThroughMono = "true" THEN "mono" ELSE Undefined

(* ---------------------------- tool output ------------------------------ *)

\* A line of inklecate's stdout, given by the groups the regular expressions
\* of parseErrorsOrRenderStory capture from it.  A line matches at most one
\* of the five expressions.
DiagLine(kind, file, n, msg) ==
  [form |-> "diag", kind |-> kind, hasFile |-> TRUE, file |-> file, lineNo |-> n, msg |-> msg]

\* `KIND: line N: message`: the optional file group is not captured.
DiagLineNoFile(kind, n, msg) ==
  [form |-> "diag", kind |-> kind, hasFile |-> FALSE, file |-> <<>>, lineNo |-> n, msg |-> msg]

TagLine(tags) == [form |-> "tags", tags |-> tags]
ChoiceLine(i, text) == [form |-> "choice", index |-> i, text |-> text]
PromptLine == [form |-> "prompt"]
EndOfStoryLine == [form |-> "eos"]
TextLine(text) == [form |-> "text", text |-> text]
EmptyLine == [form |-> "empty"]

\* A chunk of stdout: an optional leading byte order mark and the lines that
\* text.split("\n") yields (a text ending in "\n" yields a last empty line).
Chunk(bom, lines) == [bom |-> bom, lines |-> lines]

ChunkError ==
  Chunk(FALSE, <<DiagLine("ERROR", <<"main.ink">>, 3, "bad syntax"), EmptyLine>>)

ChunkWarningTodo ==
  Chunk(TRUE, <<DiagLine("WARNING", <<"sub", "a.ink">>, 1, "unused"),
                DiagLine("TODO", <<"main.ink">>, 2, "write me"), EmptyLine>>)

ChunkRuntimeError ==
  Chunk(FALSE, <<DiagLine("RUNTIME ERROR", <<"main.ink">>, 5, "out of content"), EmptyLine>>)

ChunkNoFile ==
  Chunk(FALSE, <<DiagLineNoFile("ERROR", 3, "bad syntax"), EmptyLine>>)

ChunkStory ==
  Chunk(FALSE, <<TextLine("Once upon a time"), ChoiceLine(1, "Go north"), PromptLine, EmptyLine>>)

ChunkEndOfStory ==
  Chunk(FALSE, <<TextLine("The end"), EndOfStoryLine, EmptyLine>>)

ChunkEmpty == Chunk(TRUE, <<EmptyLine>>)

Chunks ==
  {ChunkError, ChunkWarningTodo, ChunkRuntimeError, ChunkNoFile, ChunkStory, ChunkEndOfStory,
   ChunkEmpty}

(* ---------------------------- stdout as text --------------------------- *)

\* The text inklecate writes to its stdout, as a sequence of pieces; a "data"
\* event delivers some pieces, wherever the pipe cuts.
Newline == "\n"
KindPieces == {"ERROR: ", "WARNING: ", "RUNTIME ERROR: ", "RUNTIME WARNING: ", "TODO: "}
FilePieces == {"'main.ink' "}
LineNumberPieces == {"line 3: "}
ChoicePieces == {"1: "}
TagsPiece == "# tags: "
PromptPiece == "?>"
EndOfStoryPiece == "--- End of story ---"

\* The groups the regular expressions capture.
KindOf(piece) ==
  CASE piece = "ERROR: " -> "ERROR"
    [] piece = "WARNING: " -> "WARNING"
    [] piece = "RUNTIME ERROR: " -> "RUNTIME ERROR"
    [] piece = "RUNTIME WARNING: " -> "RUNTIME WARNING"
    [] piece = "TODO: " -> "TODO"

FileOf(piece) == <<"main.ink">>
LineNumberOf(piece) == 3
ChoiceIndexOf(piece) == 1

RECURSIVE SplitLines(_, _)
\* text.split("\n"): cur is the line being read.
SplitLines(text, cur) ==
  IF text = <<>> THEN <<cur>>
  ELSE IF Head(text) = Newline
    THEN <<cur>> \o SplitLines(Tail(text), <<>>)
    ELSE SplitLines(Tail(text), Append(cur, Head(text)))

\* The five matches of parseErrorsOrRenderStory on one line, in the order of
\* the if-else chain.  The error expression needs a message after the line
\* number, the tag expression needs a tag.
MatchLine(line) ==
  IF line = <<>> THEN EmptyLine
  ELSE IF Len(line) >= 4 /\ line[1] \in KindPieces /\ line[2] \in FilePieces
          /\ line[3] \in LineNumberPieces
    THEN DiagLine(KindOf(line[1]), FileOf(line[2]), LineNumberOf(line[3]),
                  SubSeq(line, 4, Len(line)))
  ELSE IF Len(line) >= 3 /\ line[1] \in KindPieces /\ line[2] \in LineNumberPieces
    THEN DiagLineNoFile(KindOf(line[1]), LineNumberOf(line[2]), SubSeq(line, 3, Len(line)))
  ELSE IF Len(line) >= 2 /\ line[1] = TagsPiece
    THEN TagLine(SubSeq(line, 2, Len(line)))
  ELSE IF line[1] \in ChoicePieces
    THEN ChoiceLine(ChoiceIndexOf(line[1]), SubSeq(line, 2, Len(line)))
  ELSE IF line[1] = PromptPiece THEN PromptLine
  ELSE IF line[1] = EndOfStoryPiece THEN EndOfStoryLine
  ELSE TextLine(line)

\* The chunk a "data" event carries for a piece of text.
ChunkOfText(text) ==
  LET lines == SplitLines(text, <<>>)
  IN  Chunk(FALSE, [i \in 1..Len(lines) |-> MatchLine(lines[i])])

TextError == <<"ERROR: ", "'main.ink' ", "line 3: ", "bad", " syntax", Newline>>

TextTwoErrors ==
  <<"WARNING: ", "'main.ink' ", "line 3: ", "unused", Newline,
    "TODO: ", "'main.ink' ", "line 3: ", "write", Newline>>

TextStory == <<"Hello", " world", Newline, "1: ", "Go", Newline, "?>", Newline>>

Texts == {TextError, TextTwoErrors, TextStory}

(* ---------------------------- parser ----------------------------------- *)

\* text.replace(/^\uFEFF/, "")
StripBom(text) == [text EXCEPT !.bom = FALSE]

\* text.length === 0
IsEmptyText(text) == ~text.bom /\ text.lines = <<EmptyLine>>

\* InkErrorType.parse
InkErrorTypeParse(s) == IF s \in InkErrorTypes THEN s ELSE Undefined

\* A notification of the StoryRenderer.
RuntimeEvent(type, payload) == [type |-> type, payload |-> payload]

RECURSIVE ParseLines(_, _, _, _, _, _)
\* The loop of parseErrorsOrRenderStory over the lines: inkErrors and the
\* renderer calls made so far are carried along.  Path.join throws a
\* TypeError when the file group is undefined; the exception leaves the
\* function, so no list of errors is returned for the chunk.
ParseLines(lines, mainStoryPathPrefix, workspace, isPlaying, inkErrors, events) ==
  IF lines = <<>> THEN [errors |-> inkErrors, events |-> events, threw |-> FALSE]
  ELSE
    LET line == Head(lines)
        rest == Tail(lines)
    IN
    IF line.form = "diag" THEN
      IF ~line.hasFile THEN [errors |-> <<>>, events |-> events, threw |-> TRUE]
      ELSE
        LET errorType == InkErrorTypeParse(line.kind)
            path == PathJoin3(FsPath(workspace.uri), mainStoryPathPrefix, line.file)
        IN
        IF errorType = Undefined
          THEN ParseLines(rest, mainStoryPathPrefix, workspace, isPlaying, inkErrors, events)
        ELSE IF errorType \in {"RUNTIME ERROR", "RUNTIME WARNING"}
          THEN ParseLines(rest, mainStoryPathPrefix, workspace, isPlaying, inkErrors,
                 IF isPlaying
                   THEN Append(events, RuntimeEvent("inkRuntime/error",
                          [errorType |-> errorType, msg |-> line.msg,
                           path |-> path, lineNo |-> line.lineNo]))
                   ELSE events)
        ELSE ParseLines(rest, mainStoryPathPrefix, workspace, isPlaying,
               Append(inkErrors, [filePath |-> path, lineNumber |-> line.lineNo,
                                  message |-> line.msg, type |-> errorType]),
               events)
    ELSE
      ParseLines(rest, mainStoryPathPrefix, workspace, isPlaying, inkErrors,
        IF ~isPlaying THEN events
        ELSE IF line.form = "tags" THEN Append(events, RuntimeEvent("inkRuntime/tag", line.tags))
        ELSE IF line.form = "choice"
          THEN Append(events, RuntimeEvent("inkRuntime/choice",
                 [index |-> line.index, text |-> line.text]))
        ELSE IF line.form = "prompt" THEN Append(events, RuntimeEvent("inkRuntime/prompt", <<>>))
        ELSE IF line.form = "eos" THEN Append(events, RuntimeEvent("inkRuntime/endOfStory", <<>>))
        ELSE IF line.form = "text" THEN Append(events, RuntimeEvent("inkRuntime/text", line.text))
        ELSE events)

parseErrorsOrRenderStory(text, mainStoryPathPrefix, workspace, isPlaying) ==
  LET stripped == StripBom(text)
  IN  IF IsEmptyText(stripped)
        THEN [errors |-> <<>>, events |-> <<>>, threw |-> FALSE]
        ELSE ParseLines(stripped.lines, mainStoryPathPrefix, workspace, isPlaying, <<>>, <<>>)

(* ---------------------------- diagnostics ------------------------------ *)

getDiagnosticSeverityFromInkErrorTypeTodoAsWarning(type) ==
  CASE type \in {"RUNTIME ERROR", "ERROR"} -> SeverityError
    [] type \in {"RUNTIME WARNING", "WARNING", "TODO"} -> SeverityWarning

getDiagnosticSeverityFromInkErrorType(type) ==
  CASE type \in {"RUNTIME ERROR", "ERROR"} -> SeverityError
    [] type \in {"RUNTIME WARNING", "WARNING"} -> SeverityWarning
    [] type = "TODO" -> SeverityInformation

\* The Diagnostic built from an InkError.  A message is the sequence of its
\* concatenated parts.
DiagnosticOf(error) ==
  [severity |-> getDiagnosticSeverityFromInkErrorType(error.type),
   startLine |-> error.lineNumber - 1,
   endLine |-> error.lineNumber,
   message |-> IF error.type = "TODO" THEN <<"Todo: ", error.message>> ELSE <<error.message>>,
   source |-> "inklecate"]

RECURSIVE DiagnosticsFor(_, _)
\* The inner loop of notifyClientAndPushDiagnostics: the diagnostics of the
\* errors whose filePath is the document's fsPath, in order.
DiagnosticsFor(textDocument, errors) ==
  IF errors = <<>> THEN <<>>
  ELSE IF FsPath(textDocument) = Head(errors).filePath
    THEN <<DiagnosticOf(Head(errors))>> \o DiagnosticsFor(textDocument, Tail(errors))
    ELSE DiagnosticsFor(textDocument, Tail(errors))

\* connection.sendNotification(didCompileStory, params); `by` records the
\* run whose handler sent it.
DidCompileStory(workspace, outputStoryPath, by) ==
  [type |-> "inkWorkspace/didCompileStory", by |-> by,
   payload |-> [workspaceUri |-> workspace.uri,
                storyUri |-> [scheme |-> "file", path |-> outputStoryPath]]]

\* connection.sendDiagnostics({ uri, diagnostics })
PublishDiagnostics(textDocument, diagnostics, by) ==
  [type |-> "textDocument/publishDiagnostics", by |-> by,
   payload |-> [uri |-> textDocument, diagnostics |-> diagnostics]]

\* An iteration that publishes nothing for a document without diagnostics.
SentForDocumentSkippingEmpty(textDocument, workspace, outputStoryPath, errors, by) ==
  LET diagnostics == DiagnosticsFor(textDocument, errors)
  IN  IF Len(diagnostics) = 0
        THEN <<DidCompileStory(workspace, outputStoryPath, by)>>
        ELSE <<PublishDiagnostics(textDocument, diagnostics, by)>>

\* What one iteration of the loop over the open documents sends.
SentForDocument(textDocument, workspace, outputStoryPath, errors, by) ==
  LET diagnostics == DiagnosticsFor(textDocument, errors)
  IN  (IF Len(diagnostics) = 0
         THEN <<DidCompileStory(workspace, outputStoryPath, by)>>
         ELSE <<>>)
      \o <<PublishDiagnostics(textDocument, diagnostics, by)>>

RECURSIVE notifyClientAndPushDiagnostics(_, _, _, _, _)
\* Everything DiagnosticManager.notifyClientAndPushDiagnostics sends, for the
\* documents `docs` in order.
notifyClientAndPushDiagnostics(docs, workspace, outputStoryPath, errors, by) ==
  IF docs = <<>> THEN <<>>
  ELSE SentForDocument(Head(docs), workspace, outputStoryPath, errors, by)
       \o notifyClientAndPushDiagnostics(Tail(docs), workspace, outputStoryPath, errors, by)

(* ---------------------------- server state ----------------------------- *)

\* No helper is called on its own.
NoCall == [function |-> "none", arguments |-> <<>>, result |-> <<>>, returned |-> FALSE]

\* The content of a file whose text is of no concern.
SomeContent == "content"

\* A function as a set of files: path -> content.
FilesAt(paths) == [p \in paths |-> SomeContent]

\* The project of the ready server and its mirror.
ProjectFiles == FilesAt({<<"ws", "main.ink">>, <<"ws", "sub", "a.ink">>})

MirroredFiles ==
  FilesAt({<<"ws", "main.ink">>, <<"ws", "sub", "a.ink">>,
           <<"tmp", "uuid", "main.ink">>, <<"tmp", "uuid", "sub", "a.ink">>})

\* The server once initializeInkWorkspaces has mirrored the workspace.
ReadyWorkspaceManager ==
  [canCompile |-> TRUE,
   initializationOptions |-> AbsentSettings,
   capabilities |-> [configuration |-> TRUE, workspaceFolder |-> TRUE],
   rootUri |-> <<MirroredWorkspace.uri>>,
   workspaceDirectories |-> <<MirroredWorkspace>>]

ServerReady ==
  /\ workspaceManager = ReadyWorkspaceManager
  /\ client = [settings |-> AbsentSettings, folders |-> <<MirroredWorkspace.uri>>,
               lastCommand |-> "none"]
  /\ disk = MirroredFiles
  /\ mirrors = <<>>
  /\ passes = <<>>
  /\ requests = <<>>
  /\ binaryCheck = "true"
  /\ unitCall = NoCall

(* ---------------------------- processes -------------------------------- *)

\* A request that has not been made yet.
NoRun ==
  [phase |-> "none", isPlaying |-> FALSE, settings |-> getDefaultSettings,
   workspace |-> MirroredWorkspace, mainStoryTempPath |-> <<>>,
   verificationFailed |-> FALSE, order |-> 0, replaced |-> None, command |-> Undefined, args |-> <<>>,
   errored |-> FALSE, exited |-> FALSE, closed |-> FALSE, killed |-> FALSE, threw |-> FALSE,
   errors |-> <<>>, chunks |-> <<>>, stdin |-> <<>>, output |-> <<>>, stdout |-> <<>>,
   requested |-> AbsentSettings, origin |-> "none", stopRequested |-> FALSE]

Spawned(r) == procs[r].phase = "spawned"

\* The child process of run r exists and has neither failed to spawn nor
\* exited.  order is the rank of the spawn among the spawns, replaced the
\* occupant of the slot that the spawn overwrote.
Running(r) == Spawned(r) /\ ~procs[r].errored /\ ~procs[r].exited

NumSpawned == Cardinality({r \in Runs : Spawned(r)})

RECURSIVE SumOver(_, _)
SumOver(f, S) ==
  IF S = {} THEN 0
  ELSE LET x == CHOOSE y \in S : TRUE IN f[x] + SumOver(f, S \ {x})

NumChunks == SumOver([r \in Runs |-> Len(procs[r].chunks)], Runs)

NumChoices == SumOver([r \in Runs |-> Len(procs[r].stdin)], Runs)

Show(chan, msg, r) == [chan |-> chan, msg |-> msg, run |-> r]

(* ---------------------------- verification ----------------------------- *)

\* The messages testThatInklecateIsExecutable shows, given what Fs.access
\* finds.  Every rejection is caught by a handler that only reports it, so
\* the returned promise is always fulfilled.
testThatInklecateIsExecutable(mergedSettings, r, execOk, storyOk) ==
  LET storyMessages ==
        IF storyOk THEN {}
        ELSE {Show("console.error", <<"'mainStoryPath' is not readable.">>, r),
              Show("showErrorMessage", <<"'mainStoryPath' is not readable.">>, r)}
      inklecateMessages ==
        IF execOk THEN {}
        ELSE {Show("console.error", <<"'inklecatePath' is not executable.">>, r),
              Show("showErrorMessage", <<"'inklecatePath' is not executable.">>, r)}
  IN  IF Truthy(mergedSettings.runThroughMono)
        THEN storyMessages
        ELSE inklecateMessages \cup storyMessages

\* Whether the pre-spawn verification of the request found a failure.
VerificationFails(mergedSettings, execOk, storyOk) ==
  IF Truthy(mergedSettings.runThroughMono) THEN ~storyOk ELSE ~execOk \/ ~storyOk

\* Whether the continuation `.then(() => this.spawnInklecate(...))` runs.
SpawnsAfterVerification(failed) == TRUE

(* ---------------------------- spawnInklecate --------------------------- *)

SpawnCommand(settings) ==
  LET monoPath == getMonoPath(settings.runThroughMono)
  IN  IF monoPath # Undefined /\ monoPath # "" THEN monoPath ELSE settings.inklecateExecutablePath

\* Arguments that leave out the executable when mono is the command.
SpawnArgsWithoutExecutable(settings, mainStoryTempPath, isPlaying) ==
  LET outputStoryPath == WithJsonSuffix(mainStoryTempPath)
  IN  IF isPlaying THEN <<"-p", mainStoryTempPath>>
                   ELSE <<"-o", outputStoryPath, mainStoryTempPath>>

SpawnArgs(settings, mainStoryTempPath, isPlaying) ==
  LET outputStoryPath == WithJsonSuffix(mainStoryTempPath)
  IN  IF isPlaying
        THEN IF Truthy(settings.runThroughMono)
               THEN <<settings.inklecateExecutablePath, "-p", mainStoryTempPath>>
               ELSE <<"-p", mainStoryTempPath>>
        ELSE IF Truthy(settings.runThroughMono)
               THEN <<settings.inklecateExecutablePath, "-o", outputStoryPath, mainStoryTempPath>>
               ELSE <<"-o", outputStoryPath, mainStoryTempPath>>

\* A spawn that keeps the occupant of the slot when there is one.
SlotAfterSpawnKeepingOccupant(r) == IF inklecateProcess # None THEN inklecateProcess ELSE r

\* this.inklecateProcess = ChildProcess.spawn(...)
SlotAfterSpawn(r) == r

\* An "exit" handler that clears the slot only once stdout has closed.
SlotAfterExitOnceClosed(r) == IF procs[r].closed THEN None ELSE inklecateProcess

\* The "exit" handler: this.inklecateProcess = undefined
SlotAfterExit(r) == None

\* The "error" handler does not assign the slot.
SlotAfterError(r) == inklecateProcess

\* The reasons the "error" handler lists; the MacOs case of the switch falls
\* through to the Other case.
PossibleReasons(settings) ==
  (IF Truthy(settings.runThroughMono) /\ platform # "Windows"
     THEN <<"mono is not installed in the $PATH">> ELSE <<>>)
  \o (CASE platform = "MacOs" ->
             <<"the prebuilt binary was not installed",
               "the value of ink.inklecateExecutablePath is incorrect">>
        [] platform = "Other" ->
             <<"the value of ink.inklecateExecutablePath is incorrect">>
        [] platform = "Windows" -> <<".NET is likely missing">>)

\* errors = errors.concat(newErrors)
ErrorsAfterData(errors, newErrors) == errors \o newErrors

\* A "close" handler that delivers nothing for a process that is no longer
\* the occupant of the slot.
SentAtCloseUnlessReplaced(r) ==
  IF inklecateProcess # r THEN <<>>
  ELSE (IF procs[r].isPlaying
          THEN <<[type |-> "inkRuntime/endOfStory", by |-> r, payload |-> <<>>]>>
          ELSE <<>>)
       \o notifyClientAndPushDiagnostics(openDocs, procs[r].workspace,
            WithJsonSuffix(procs[r].mainStoryTempPath), procs[r].errors, r)

\* What the stdout "close" handler sends: the end of story in play mode,
\* then the accumulated errors to the DiagnosticManager.
SentAtClose(r) ==
  (IF procs[r].isPlaying
     THEN <<[type |-> "inkRuntime/endOfStory", by |-> r, payload |-> <<>>]>>
     ELSE <<>>)
  \o notifyClientAndPushDiagnostics(openDocs, procs[r].workspace,
       WithJsonSuffix(procs[r].mainStoryTempPath), procs[r].errors, r)

\* A renderer that keeps the notifications of a chunk for later.
RenderedAtDataBatched(r, events) == <<>>

\* The notifications the StoryRenderer sends while a chunk is parsed, in the
\* order of the calls.
RenderedAtData(r, events) ==
  [i \in 1..Len(events) |->
     [type |-> events[i].type, by |-> r, payload |-> events[i].payload]]

\* A "data" handler that hands the errors of each chunk to the
\* DiagnosticManager as soon as they are parsed.
SentAtDataFlushing(r) ==
  notifyClientAndPushDiagnostics(openDocs, procs[r].workspace,
    WithJsonSuffix(procs[r].mainStoryTempPath), procs[r].errors, r)

\* What the stdout "data" handler sends to the DiagnosticManager: nothing,
\* the errors are kept until stdout closes.
SentAtData(r) == <<>>

(* ---------------------------- actions ---------------------------------- *)

\* runInklecate up to the call of testThatInklecateIsExecutable: what it
\* does to the runs and to the console.  `origin` records the caller.
RunInklecateCall(settings, inkWorkspace, isPlaying, origin) ==
  IF ~inkWorkspace.hasTempDir
    THEN /\ shown' = shown \cup {Show("console.warn", <<"Temporary directory is undefined">>, 0)}
         /\ procs' = procs
    ELSE /\ \E r \in Runs :
              /\ procs[r].phase = "none"
              /\ \A q \in Runs : q < r => procs[q].phase # "none"
              /\ LET mergedSettings == mergeSettings(settings, getDefaultSettings)
                 IN  procs' = [procs EXCEPT ![r] =
                       [NoRun EXCEPT !.phase = "verifying",
                                     !.isPlaying = isPlaying,
                                     !.settings = mergedSettings,
                                     !.workspace = inkWorkspace,
                                     !.mainStoryTempPath =
                                        PathJoin(inkWorkspace.tempDir, mergedSettings.mainStoryPath),
                                     !.requested = settings,
                                     !.origin = origin]]
         /\ shown' = shown

runInklecate(settings, inkWorkspace, isPlaying) ==
  /\ RunInklecateCall(settings, inkWorkspace, isPlaying, "backend")
  /\ UNCHANGED <<unitCall, platform, macInstalled, openDocs, workspaceManager, client, disk, mirrors,
                 passes, requests, binaryCheck,
                 inklecateProcess, sent>>

compileStory(settings, inkWorkspace) == runInklecate(settings, inkWorkspace, FALSE)

runStory(settings, inkWorkspace) == runInklecate(settings, inkWorkspace, TRUE)

\* The promise of testThatInklecateIsExecutable settles and its continuation
\* runs: the messages of the verification, then spawnInklecate up to the
\* registration of the handlers.  execOk and storyOk are what Fs.access finds.
spawnInklecate(r, execOk, storyOk) ==
  /\ procs[r].phase = "verifying"
  /\ LET failed == VerificationFails(procs[r].settings, execOk, storyOk)
     IN
     /\ shown' = shown \cup testThatInklecateIsExecutable(procs[r].settings, r, execOk, storyOk)
     /\ IF SpawnsAfterVerification(failed)
          THEN /\ inklecateProcess' = SlotAfterSpawn(r)
               /\ procs' = [procs EXCEPT ![r] =
                    [@ EXCEPT !.phase = "spawned",
                              !.verificationFailed = failed,
                              !.order = NumSpawned + 1,
                              !.replaced = inklecateProcess,
                              !.command = SpawnCommand(procs[r].settings),
                              !.args = SpawnArgs(procs[r].settings, procs[r].mainStoryTempPath,
                                                 procs[r].isPlaying)]]
          ELSE /\ procs' = [procs EXCEPT ![r] =
                    [@ EXCEPT !.phase = "aborted", !.verificationFailed = failed]]
               /\ UNCHANGED inklecateProcess
  /\ UNCHANGED <<unitCall, platform, macInstalled, openDocs, workspaceManager, client, disk, mirrors,
                 passes, requests, binaryCheck, sent>>

\* The "error" handler of the child process, for a failure to spawn.
OnError(r) ==
  /\ Spawned(r) /\ ~procs[r].errored /\ ~procs[r].exited /\ ~procs[r].closed
  /\ procs[r].chunks = <<>>
  /\ procs' = [procs EXCEPT ![r].errored = TRUE]
  /\ inklecateProcess' = SlotAfterError(r)
  /\ shown' = shown \cup
       {Show("console.error", <<"Inklecate spawn error">>, r),
        Show("showErrorMessage", PossibleReasons(procs[r].settings), r)}
  /\ UNCHANGED <<unitCall, platform, macInstalled, openDocs, workspaceManager, client, disk, mirrors,
                 passes, requests, binaryCheck, sent>>

\* The stdout "data" handler, for a chunk `text`; `pending` is what the
\* tool has written and the pipe has not delivered yet.
StdoutData(r, text, pending) ==
  /\ Spawned(r) /\ ~procs[r].errored /\ ~procs[r].closed
  /\ LET result == parseErrorsOrRenderStory(text, Dirname(procs[r].settings.mainStoryPath),
                                            procs[r].workspace, procs[r].isPlaying)
     IN  /\ procs' = [procs EXCEPT ![r] =
               [@ EXCEPT !.chunks = Append(@, text),
                         !.threw = @ \/ result.threw,
                         !.errors = IF result.threw THEN @
                                    ELSE ErrorsAfterData(@, result.errors),
                         !.stdout = pending]]
         /\ sent' = sent \o RenderedAtData(r, result.events) \o SentAtData(r)
  /\ UNCHANGED <<unitCall, platform, macInstalled, openDocs, workspaceManager, client, disk, mirrors,
                 passes, requests, binaryCheck, inklecateProcess, shown>>

\* The "data" handler for a chunk given as such.
OnStdoutData(r, text) == StdoutData(r, text, procs[r].stdout)

\* The tool writes its whole output for the run to its stdout.
ToolPrints(r, text) ==
  /\ Spawned(r) /\ ~procs[r].errored /\ ~procs[r].closed
  /\ procs[r].output = <<>> /\ procs[r].chunks = <<>>
  /\ procs' = [procs EXCEPT ![r] = [@ EXCEPT !.output = text, !.stdout = text]]
  /\ UNCHANGED <<unitCall, platform, macInstalled, openDocs, workspaceManager, client, disk, mirrors,
                 passes, requests, binaryCheck, inklecateProcess, sent, shown>>

\* The "data" handler for the first n pieces of the pending output.
OnStdoutText(r, n) ==
  /\ n \in 1..Len(procs[r].stdout)
  /\ StdoutData(r, ChunkOfText(SubSeq(procs[r].stdout, 1, n)),
                SubSeq(procs[r].stdout, n + 1, Len(procs[r].stdout)))

\* The stdout "close" handler; the pipe closes once it is drained.
OnStdoutClose(r) ==
  /\ Spawned(r) /\ ~procs[r].closed /\ procs[r].stdout = <<>>
  /\ procs' = [procs EXCEPT ![r].closed = TRUE]
  /\ sent' = sent \o SentAtClose(r)
  /\ UNCHANGED <<unitCall, platform, macInstalled, openDocs, workspaceManager, client, disk, mirrors,
                 passes, requests, binaryCheck, inklecateProcess, shown>>

\* The "exit" handler of the child process.  After an "error" event the
\* "exit" event may or may not follow.
OnExit(r) ==
  /\ Spawned(r) /\ ~procs[r].exited
  /\ procs' = [procs EXCEPT ![r].exited = TRUE]
  /\ inklecateProcess' = SlotAfterExit(r)
  /\ UNCHANGED <<unitCall, platform, macInstalled, openDocs, workspaceManager, client, disk, mirrors,
                 passes, requests, binaryCheck, sent, shown>>

\* `${index}\n`
ChoiceInput(index) == [index |-> index, terminator |-> "LF"]

\* The process whose stdin chooseOption writes to, None when it writes nothing.
ChoiceTarget == inklecateProcess

\* The processes after chooseOption.
ProcsAfterChoice(index) ==
  IF ChoiceTarget # None
    THEN [procs EXCEPT ![ChoiceTarget].stdin = Append(@, ChoiceInput(index))]
    ELSE procs

chooseOption(index) ==
  /\ procs' = ProcsAfterChoice(index)
  /\ UNCHANGED <<unitCall, platform, macInstalled, openDocs, workspaceManager, client, disk, mirrors,
                 passes, requests, binaryCheck,
                 inklecateProcess, sent, shown>>

\* The processes after stopCurrentStory: kill() is called on the slot's
\* process; it signals nothing when that process failed to spawn.
ProcsAfterStop(ps, slot) ==
  IF slot # None /\ ~ps[slot].errored THEN [ps EXCEPT ![slot].killed = TRUE] ELSE ps

stopCurrentStory ==
  /\ procs' = ProcsAfterStop(procs, inklecateProcess)
  /\ UNCHANGED <<unitCall, platform, macInstalled, openDocs, workspaceManager, client, disk, mirrors,
                 passes, requests, binaryCheck, inklecateProcess, sent, shown>>

(* ---------------------------- workspaces ------------------------------ *)

IsPrefix(a, b) == Len(a) <= Len(b) /\ SubSeq(b, 1, Len(a)) = a

\* A path as it is written: its root ("" when it is relative, "/" or a
\* drive), its segments, whether it ends with a separator.
RawPath(root, segs, slash) == [root |-> root, segs |-> segs, slash |-> slash]

\* The path of a sequence of segments from the root.
AbsolutePath(segs) == RawPath("/", segs, FALSE)

\* process.cwd() and its drive.
Cwd == <<"home">>
CurrentDrive == "C:"

RECURSIVE ResolveSegments(_, _)
\* The segments of a resolved path: "." is dropped, ".." takes the segment
\* before it away and is dropped at the root.
ResolveSegments(segs, acc) ==
  IF segs = <<>> THEN acc
  ELSE IF Head(segs) = "." THEN ResolveSegments(Tail(segs), acc)
  ELSE IF Head(segs) = ".."
    THEN ResolveSegments(Tail(segs), IF acc = <<>> THEN acc ELSE SubSeq(acc, 1, Len(acc) - 1))
  ELSE ResolveSegments(Tail(segs), Append(acc, Head(segs)))

\* Path.resolve(p), Path being the module of the platform: a drive is a
\* root on Windows and the name of a directory elsewhere; a final separator
\* is dropped.
PathResolve(p) ==
  IF platform = "Windows"
    THEN CASE p.root = "" -> [root |-> CurrentDrive, segs |-> ResolveSegments(Cwd \o p.segs, <<>>)]
           [] p.root = "/" -> [root |-> CurrentDrive, segs |-> ResolveSegments(p.segs, <<>>)]
           [] OTHER -> [root |-> p.root, segs |-> ResolveSegments(p.segs, <<>>)]
    ELSE CASE p.root = "" -> [root |-> "/", segs |-> ResolveSegments(Cwd \o p.segs, <<>>)]
           [] p.root = "/" -> [root |-> "/", segs |-> ResolveSegments(p.segs, <<>>)]
           [] OTHER -> [root |-> "/", segs |-> ResolveSegments(Cwd \o <<p.root>> \o p.segs, <<>>)]

RECURSIVE CommonLength(_, _)
\* The number of leading segments two paths share.
CommonLength(a, b) ==
  IF a = <<>> \/ b = <<>> \/ Head(a) # Head(b) THEN 0
  ELSE 1 + CommonLength(Tail(a), Tail(b))

\* Path.relative(from, to): the resolved `to` when the roots differ, else
\* one ".." per segment of `from` past what the two share, then the rest of
\* `to`.
PathRelative(from, to) ==
  LET f == PathResolve(from)
      t == PathResolve(to)
      c == CommonLength(f.segs, t.segs)
  IN  IF f.root # t.root
        THEN [absolute |-> TRUE, segs |-> t.segs]
        ELSE [absolute |-> FALSE,
              segs |-> [i \in 1..(Len(f.segs) - c) |-> ".."]
                       \o SubSeq(t.segs, c + 1, Len(t.segs))]

\* The segments whose text starts with "..".
TwoDotNames == {"..", "..hidden"}

\* !!relative && !relative.startsWith("..") && !Path.isAbsolute(relative)
isFilePathChildOfDirPath(filePath, dirPath) ==
  LET relative == PathRelative(dirPath, filePath)
  IN  /\ (relative.absolute \/ relative.segs # <<>>)
      /\ ~(~relative.absolute /\ relative.segs # <<>> /\ relative.segs[1] \in TwoDotNames)
      /\ ~relative.absolute

\* The position in workspaceDirectories of the first workspace that holds
\* the path, 0 when getInkWorkspaceOfFilePath returns undefined.
getInkWorkspaceOfFilePath(documentPath) ==
  LET wd == workspaceManager.workspaceDirectories
      owners == {i \in 1..Len(wd) :
                   isFilePathChildOfDirPath(AbsolutePath(documentPath),
                                            AbsolutePath(FsPath(wd[i].uri)))}
  IN  IF owners = {} THEN 0 ELSE CHOOSE i \in owners : \A j \in owners : i <= j

\* The settings the client holds for a resource, {} when the client cannot
\* be asked.
fetchDocumentConfigurationSettings ==
  IF workspaceManager.capabilities.configuration THEN client.settings ELSE AbsentSettings

\* logger.reportServerError()
ServerError ==
  Show("showErrorMessage", <<"An unrecoverable error occured with Ink Language Server.">>, 0)

(* ---------------------------- mirrors --------------------------------- *)

INK_EXTENSIONS == {"ink", "ink2"}

\* name.split("."): the pieces of a name between its dots.
SplitByDot(name) ==
  CASE name \in {"main.ink", "a.ink", "story.ink", "lib.ink"} -> <<"name", "ink">>
    [] name = "a.ink2" -> <<"a", "ink2">>
    [] name = "foo.bar.ink" -> <<"foo", "bar", "ink">>
    [] name = "ink.txt" -> <<"ink", "txt">>
    [] name = ".config" -> <<"", "config">>
    [] name = "readme.md" -> <<"readme", "md">>
    [] OTHER -> <<name>>

\* An Extension that takes what follows the first dot of the name.
ExtensionAfterFirstDot(filePath) ==
  LET dotted == {i \in 1..Len(filePath.segs) : Len(SplitByDot(filePath.segs[i])) > 1}
      n == Len(filePath.segs)
  IN  IF dotted = {}
        THEN [whole |-> TRUE,
              text |-> IF filePath.root = "" /\ n = 1 THEN filePath.segs[1] ELSE Undefined]
      ELSE IF n \in dotted /\ ~filePath.slash /\ Len(SplitByDot(filePath.segs[n])) = 2
        THEN [whole |-> FALSE, text |-> SplitByDot(filePath.segs[n])[2]]
      ELSE [whole |-> FALSE, text |-> Undefined]

\* filePath.split(".").pop() || "": what follows the last dot of the path.
\* `whole` when the path has no dot, the piece then being the path itself;
\* a piece that holds a separator is no name of an extension.
Extension(filePath) ==
  LET dotted == {i \in 1..Len(filePath.segs) : Len(SplitByDot(filePath.segs[i])) > 1}
      n == Len(filePath.segs)
  IN  IF dotted = {}
        THEN [whole |-> TRUE,
              text |-> IF filePath.root = "" /\ n = 1 THEN filePath.segs[1] ELSE Undefined]
      ELSE IF n \in dotted /\ ~filePath.slash
        THEN [whole |-> FALSE,
              text |-> SplitByDot(filePath.segs[n])[Len(SplitByDot(filePath.segs[n]))]]
      ELSE [whole |-> FALSE, text |-> Undefined]

\* Fs.lstatSync(path).isDirectory(), for a path that exists.
IsDirectory(path) == \E q \in DOMAIN disk : IsPrefix(path, q) /\ q # path

Exists(path) == path \in DOMAIN disk \/ IsDirectory(path)

\* What a call of isInkFile does: lstatSync, called unless directories are
\* allowed, throws for a path that does not exist, which is caught and
\* logged; directories are refused unless allowed; a path that is its own
\* extension is refused.
isInkFileCall(filePath, allowDirectories) ==
  LET path == PathResolve(filePath).segs
      extension == Extension(filePath)
  IN  IF ~allowDirectories /\ ~Exists(path)
        THEN [value |-> FALSE, warnings |-> 1, thrown |-> FALSE]
      ELSE IF ~allowDirectories /\ IsDirectory(path)
        THEN [value |-> FALSE, warnings |-> 0, thrown |-> FALSE]
      ELSE IF extension.whole
        THEN [value |-> FALSE, warnings |-> 0, thrown |-> FALSE]
      ELSE [value |-> extension.text \in INK_EXTENSIONS, warnings |-> 0, thrown |-> FALSE]

\* An isInkFile that takes every file for an ink file.
isInkFileWhateverExtension(filePath, allowDirectories) ==
  LET path == PathResolve(filePath).segs
  IN  IF ~allowDirectories /\ ~Exists(path) THEN FALSE
      ELSE IF ~allowDirectories /\ IsDirectory(path) THEN FALSE
      ELSE TRUE

\* The value isInkFile returns.
isInkFile(filePath, allowDirectories) == isInkFileCall(filePath, allowDirectories).value

\* Path.join(Os.tmpdir(), Uuid()) of the n-th call.
TempDirectory(n) == <<"tmp", ToString(n)>>

\* The files Fs.copy copies from a workspace: those its filter accepts.
CopiedFrom(workspacePath) ==
  {q \in DOMAIN disk : IsPrefix(workspacePath, q) /\ q # workspacePath /\ isInkFile(AbsolutePath(q), FALSE)}

\* Where a file of the workspace goes in the temporary directory.
MirrorPath(workspacePath, tempDirectory, q) ==
  tempDirectory \o SubSeq(q, Len(workspacePath) + 1, Len(q))

\* The disk after the files `copied` of a workspace were copied.
DiskAfterCopy(workspacePath, tempDirectory, copied) ==
  LET targets == {MirrorPath(workspacePath, tempDirectory, q) : q \in copied}
  IN  [t \in DOMAIN disk \cup targets |->
         IF t \in targets
           THEN disk[CHOOSE q \in copied : MirrorPath(workspacePath, tempDirectory, q) = t]
           ELSE disk[t]]

\* The calls of prepareTempDirectoryForCompilation that setupWorkspaceCopy
\* makes for the folders in the pass `pass`: each makes its directory first.
\* `failure` is the file operation that failed, `logged` what the call wrote
\* with console.error.
StartedMirrors(folders, pass) ==
  [i \in 1..Len(folders) |->
     [folder |-> folders[i], tempDir |-> TempDirectory(Len(mirrors) + i), phase |-> "mkdir",
      pass |-> pass, failure |-> "none", logged |-> <<>>]]

\* workspaceDirectories after a mirror of `folder` has succeeded.
DirectoriesAfterMirrorAppending(wd, folder, tempDirectory) ==
  Append(wd, [uri |-> folder, hasTempDir |-> TRUE, tempDir |-> tempDirectory])

DirectoriesAfterMirror(wd, folder, tempDirectory) ==
  IF \E i \in 1..Len(wd) : wd[i].uri = folder
    THEN [i \in 1..Len(wd) |->
            IF wd[i].uri = folder
              THEN [wd[i] EXCEPT !.hasTempDir = TRUE, !.tempDir = tempDirectory]
              ELSE wd[i]]
    ELSE Append(wd, [uri |-> folder, hasTempDir |-> TRUE, tempDir |-> tempDirectory])

\* The handlers setupWorkspaceCopy puts on a call of
\* prepareTempDirectoryForCompilation: then registers the directory and
\* allows compilation, catch only reports.
ManagerAfterMirrorWhateverOutcome(m, resolved) ==
  [workspaceManager EXCEPT
     !.workspaceDirectories = DirectoriesAfterMirror(@, mirrors[m].folder, mirrors[m].tempDir),
     !.canCompile = TRUE]

ManagerAfterMirror(m, resolved) ==
  IF resolved
    THEN [workspaceManager EXCEPT
            !.workspaceDirectories =
               DirectoriesAfterMirror(@, mirrors[m].folder, mirrors[m].tempDir),
            !.canCompile = TRUE]
    ELSE workspaceManager

\* Fs.mkdir(tempDirectory) settles.
OnMkdir(m, ok) ==
  /\ m \in 1..Len(mirrors) /\ mirrors[m].phase = "mkdir"
  /\ IF ok
       THEN /\ mirrors' = [mirrors EXCEPT ![m].phase = "copy"]
            /\ shown' = shown
            /\ workspaceManager' = workspaceManager
       ELSE /\ mirrors' = [mirrors EXCEPT
                             ![m].phase = "failed",
                             ![m].failure = "mkdir",
                             ![m].logged =
                                Append(@, "Could not create temporary compilation directory")]
            /\ shown' = shown \cup
                 {Show("console.error", <<"Could not create temporary compilation directory">>, 0),
                  ServerError}
            /\ workspaceManager' = ManagerAfterMirror(m, FALSE)
  /\ UNCHANGED <<unitCall, platform, macInstalled, openDocs, client, disk, passes, requests, binaryCheck,
                 inklecateProcess, procs, sent>>

\* Fs.copy(workspacePath, tempDirectory, filter) settles and the handlers of
\* setupWorkspaceCopy run.  A copy fails when the workspace cannot be read or
\* a file cannot be copied; the files copied before the failure stay.
OnCopy(m, ok, copied) ==
  /\ m \in 1..Len(mirrors) /\ mirrors[m].phase = "copy"
  /\ LET workspacePath == FsPath(mirrors[m].folder)
     IN  /\ copied \subseteq CopiedFrom(workspacePath)
         /\ disk' = DiskAfterCopy(workspacePath, mirrors[m].tempDir, copied)
         /\ IF ok /\ Exists(workspacePath) /\ copied = CopiedFrom(workspacePath)
              THEN /\ mirrors' = [mirrors EXCEPT ![m].phase = "done"]
                   /\ workspaceManager' = ManagerAfterMirror(m, TRUE)
                   /\ shown' = shown
              ELSE /\ ~ok
                   /\ mirrors' = [mirrors EXCEPT
                                    ![m].phase = "failed",
                                    ![m].failure = "copy",
                                    ![m].logged = Append(@, "Could not copy files")]
                   /\ workspaceManager' = ManagerAfterMirror(m, FALSE)
                   /\ shown' = shown \cup
                        {Show("console.error", <<"Could not copy files">>, 0), ServerError}
  /\ UNCHANGED <<unitCall, platform, macInstalled, openDocs, client, passes, requests, binaryCheck,
                 inklecateProcess, procs, sent>>

(* ---------------------------- requests -------------------------------- *)

Commands == {"compile-story", "play-story", "kill-inklecate", "select-option"}

\* The least run that no request has taken, 0 when every run is taken.
NextRun ==
  IF \A r \in Runs : procs[r].phase # "none" THEN 0
  ELSE CHOOSE r \in Runs : procs[r].phase = "none" /\ \A q \in Runs : q < r => procs[q].phase # "none"

\* A document change or a compile or play command as it arrives.  `ready`
\* is canCompile at that moment, `pass` the call of initializeInkWorkspaces
\* it makes, `owner` and `tempDir` the workspace found for it and the
\* directory updateFile writes to, `run` the run it starts.
NewRequest(kind, path, text) ==
  [kind |-> kind, path |-> path, text |-> text, ready |-> workspaceManager.canCompile,
   phase |-> "arrived", pass |-> 0, owner |-> 0, tempDir |-> <<>>,
   settings |-> AbsentSettings, run |-> 0]

\* getDocumentPathFromParams: the path of the first argument, or the main
\* story path of the initialization options and the defaults, which
\* URI.parse(...).fsPath reads from the root.
DocumentPathFromParams(arguments) ==
  IF arguments = <<>>
    THEN mergeSettings(workspaceManager.initializationOptions, getDefaultSettings).mainStoryPath
    ELSE FsPath(arguments[1])

\* What is written when no workspace holds the path.
MissingWarning == Show("console.warn", <<"The temporary workspace does not exist">>, 0)

\* What is written when no workspace holds the path after
\* initializeInkWorkspaces: a change only logs the message, a command logs
\* and rejects, and compileStory or playStory shows the message.
MissingErrors(kind, path) ==
  IF kind = "change"
    THEN {Show("console.error", <<"The temporary workspace is missing or ">> \o path
                                   \o <<" is not in the workspace.">>, 0)}
    ELSE {Show("console.error",
               <<"The temporary workspace is still missing, aborting command.">>, 0),
          Show("showErrorMessage",
               <<"The project could not be compiled: ",
                 "The temporary workspace is missing or ">> \o path
                 \o <<" is not in the workspace.">>, 0)}

\* What the error handler of updateFile writes and shows.
UpdateFileErrors ==
  {Show("console.error", <<"Could not update the document">>, 0), ServerError}

\* updateDocumentAndCompileWorkspace from the merge of the settings to the
\* call of updateFile, which rejects at once without a temporary directory
\* and else starts mkdirp for the directory of the file.
ChangeProceeding(request, owner) ==
  LET workspace == workspaceManager.workspaceDirectories[owner]
      documentSettings == fetchDocumentConfigurationSettings
      settings == mergeSettings(
                    mergeSettings(documentSettings, workspaceManager.initializationOptions),
                    getDefaultSettings)
  IN  [request EXCEPT
         !.owner = owner,
         !.settings = settings,
         !.tempDir = IF workspace.hasTempDir THEN workspace.tempDir ELSE <<>>,
         !.phase = IF workspace.hasTempDir THEN "mkdirp" ELSE "failed"]

\* executeCompileCommand: the settings of the document are fetched and
\* this.compiler.compileStory is called, whatever `play` is.
executeCompileCommand(workspace, play, origin) ==
  IF ~workspaceManager.canCompile
    THEN /\ shown' = shown \cup
              {Show("showInformationMessage",
                    <<"Ink support is still initializing, please try again in a few seconds.">>, 0)}
         /\ procs' = procs
    ELSE RunInklecateCall(fetchDocumentConfigurationSettings, workspace, FALSE, origin)

\* A command once its workspace is found.
CommandProceeding(request, owner) ==
  [request EXCEPT
     !.owner = owner,
     !.settings = fetchDocumentConfigurationSettings,
     !.phase = IF workspaceManager.canCompile THEN "compiled" ELSE "initializing",
     !.run = IF workspaceManager.canCompile
                  /\ workspaceManager.workspaceDirectories[owner].hasTempDir
               THEN NextRun ELSE 0]

\* A request goes on with the workspace that holds its path: requests',
\* procs' and shown'.
Proceed(q, request, owner) ==
  LET proceeding == IF request.kind = "change" THEN ChangeProceeding(request, owner)
                                               ELSE CommandProceeding(request, owner)
  IN  /\ requests' = [i \in 1..(IF q > Len(requests) THEN q ELSE Len(requests)) |-> IF i = q THEN proceeding ELSE requests[i]]
      /\ IF request.kind = "change"
           THEN /\ procs' = procs
                /\ shown' = IF proceeding.phase = "failed" THEN shown \cup UpdateFileErrors
                                                          ELSE shown
           ELSE executeCompileCommand(workspaceManager.workspaceDirectories[owner],
                                      request.kind = "play-story", request.kind)

\* A request for which no workspace holds the path: initializeInkWorkspaces
\* is awaited.  With workspace folders the client is asked for them; without,
\* the mirrors of the root URI are started and the workspace is looked up
\* again at once.
Remirror(q, request) ==
  LET p == Len(passes) + 1
  IN  IF workspaceManager.capabilities.workspaceFolder
        THEN /\ passes' = Append(passes, [phase |-> "getWorkspaceFolders", request |-> q])
             /\ requests' = Append(requests, [request EXCEPT !.phase = "remirror", !.pass = p])
             /\ mirrors' = mirrors
             /\ shown' = shown \cup {MissingWarning}
        ELSE /\ passes' = Append(passes, [phase |-> "settled", request |-> q])
             /\ requests' = Append(requests, [request EXCEPT !.phase = "aborted", !.pass = p])
             /\ mirrors' = mirrors \o StartedMirrors(workspaceManager.rootUri, p)
             /\ shown' = shown \cup {MissingWarning} \cup MissingErrors(request.kind, request.path)

\* A request arrives: the workspace that holds its path is looked up.
Arrive(request) ==
  LET q == Len(requests) + 1
      owner == getInkWorkspaceOfFilePath(request.path)
  IN  IF owner = 0
        THEN Remirror(q, request) /\ procs' = procs
        ELSE Proceed(q, request, owner) /\ UNCHANGED <<passes, mirrors>>

\* initializeInkWorkspaces with nothing awaiting it: passes' and mirrors'.
InitializeInkWorkspacesCall ==
  IF workspaceManager.capabilities.workspaceFolder
    THEN /\ passes' = Append(passes, [phase |-> "getWorkspaceFolders", request |-> 0])
         /\ mirrors' = mirrors
    ELSE /\ passes' = Append(passes, [phase |-> "settled", request |-> 0])
         /\ mirrors' = mirrors \o StartedMirrors(workspaceManager.rootUri, Len(passes) + 1)

\* The handler of onDidChangeWorkspaceFolders.
initializeInkWorkspaces ==
  /\ InitializeInkWorkspacesCall
  /\ UNCHANGED <<unitCall, platform, macInstalled, openDocs, workspaceManager, client, disk, requests,
                 binaryCheck, inklecateProcess, procs, sent, shown>>

\* The client answers getWorkspaceFolders.  setupWorkspaceCopy starts a
\* mirror per folder and returns without awaiting them, so the request that
\* awaits the pass looks its workspace up again before any of them settles.
\* When the client answers with an error a change stops there and a command
\* is rejected without a message.
OnWorkspaceFolders(p, ok) ==
  /\ p \in 1..Len(passes) /\ passes[p].phase = "getWorkspaceFolders"
  /\ passes' = [passes EXCEPT ![p].phase = IF ok THEN "settled" ELSE "rejected"]
  /\ mirrors' = IF ok THEN mirrors \o StartedMirrors(client.folders, p) ELSE mirrors
  /\ LET q == passes[p].request
     IN  IF q = 0 THEN UNCHANGED <<requests, procs, shown>>
         ELSE IF ~ok
           THEN /\ requests' = [requests EXCEPT ![q].phase = "rejected"]
                /\ procs' = procs
                /\ shown' = IF requests[q].kind = "change" THEN shown
                            ELSE shown \cup {Show("showErrorMessage",
                                                  <<"The project could not be compiled: ",
                                                    Undefined>>, 0)}
         ELSE LET owner == getInkWorkspaceOfFilePath(requests[q].path)
              IN  IF owner = 0
                    THEN /\ requests' = [requests EXCEPT ![q].phase = "aborted"]
                         /\ procs' = procs
                         /\ shown' = shown \cup MissingErrors(requests[q].kind, requests[q].path)
                    ELSE Proceed(q, requests[q], owner)
  /\ UNCHANGED <<unitCall, platform, macInstalled, openDocs, workspaceManager, client, disk, binaryCheck,
                 inklecateProcess, sent>>

\* CommandRunner.selectOption: !params.arguments[0] holds for the index 0.
selectOption(arguments) ==
  IF arguments = <<>> \/ arguments[1] = 0
    THEN /\ shown' = shown \cup
              {Show("showErrorMessage",
                    <<"select-option error: the command was called with no arguments.">>, 0)}
         /\ procs' = procs
    ELSE /\ procs' = ProcsAfterChoice(arguments[1])
         /\ shown' = shown

\* CommandRunner.compileStory and CommandRunner.playStory.
compileOrPlayCommand(arguments, play, origin) ==
  Arrive(NewRequest(origin, DocumentPathFromParams(arguments), ""))

\* connection.onExecuteCommand: a command without a case does nothing.
\* client.lastCommand records what the client sent last.
onExecuteCommand(command, arguments) ==
  /\ client' = [client EXCEPT !.lastCommand = command]
  /\ CASE command = "compile-story" -> compileOrPlayCommand(arguments, FALSE, command)
       [] command = "play-story" -> compileOrPlayCommand(arguments, TRUE, command)
       [] command = "select-option" ->
            selectOption(arguments) /\ UNCHANGED <<mirrors, passes, requests>>
       [] OTHER -> UNCHANGED <<procs, shown, mirrors, passes, requests>>
  /\ UNCHANGED <<unitCall, platform, macInstalled, openDocs, workspaceManager, disk, binaryCheck,
                 inklecateProcess, sent>>

\* Whether updateDocumentAndCompileWorkspace returns at once.
ChangeIsDroppedNever == FALSE

ChangeIsDropped == ~workspaceManager.canCompile

\* documents.onDidChangeContent: updateDocumentAndCompileWorkspace up to its
\* first file operation.  The continuations of the awaits on the settings
\* run in the order of the changes.
onDidChangeContent(document, text) ==
  /\ IF ChangeIsDropped
       THEN /\ requests' =
                 Append(requests, [NewRequest("change", FsPath(document), text)
                                     EXCEPT !.phase = "dropped"])
            /\ UNCHANGED <<passes, mirrors, procs, shown>>
       ELSE Arrive(NewRequest("change", FsPath(document), text))
  /\ UNCHANGED <<unitCall, platform, macInstalled, openDocs, workspaceManager, client, disk, binaryCheck,
                 inklecateProcess, sent>>

\* Fs.mkdirp(Path.dirname(fullPath)) of updateFile settles.
OnMkdirp(q, ok) ==
  /\ q \in 1..Len(requests) /\ requests[q].phase = "mkdirp"
  /\ requests' = [requests EXCEPT ![q].phase = IF ok THEN "writeFile" ELSE "failed"]
  /\ shown' = IF ok THEN shown ELSE shown \cup UpdateFileErrors
  /\ UNCHANGED <<unitCall, platform, macInstalled, openDocs, workspaceManager, client, disk, mirrors,
                 passes, binaryCheck, inklecateProcess, procs, sent>>

\* An updateFile that writes the document where the editor has it.
UpdatedPathInWorkspace(request) == request.path

\* Where updateFile writes the document.
UpdatedPath(request) ==
  MirrorPath(FsPath(workspaceManager.workspaceDirectories[request.owner].uri),
             request.tempDir, request.path)

\* What the handlers of updateFile do to the runs and the console: the
\* story is compiled once the file is written, the error is reported else.
AfterUpdateFileCompilingAnyway(q, ok) ==
  RunInklecateCall(requests[q].settings,
                   workspaceManager.workspaceDirectories[requests[q].owner], FALSE,
                   "didChangeContent")

AfterUpdateFile(q, ok) ==
  IF ok
    THEN RunInklecateCall(requests[q].settings,
                          workspaceManager.workspaceDirectories[requests[q].owner], FALSE,
                          "didChangeContent")
    ELSE /\ shown' = shown \cup UpdateFileErrors
         /\ procs' = procs

\* Fs.writeFile(fullPath, documentContent) of updateFile settles.
OnWriteFile(q, ok) ==
  /\ q \in 1..Len(requests) /\ requests[q].phase = "writeFile"
  /\ requests' = [requests EXCEPT ![q].phase = IF ok THEN "compiled" ELSE "failed",
                                  ![q].run = IF ok THEN NextRun ELSE 0]
  /\ disk' = IF ok
               THEN [t \in DOMAIN disk \cup {UpdatedPath(requests[q])} |->
                       IF t = UpdatedPath(requests[q]) THEN requests[q].text ELSE disk[t]]
               ELSE disk
  /\ AfterUpdateFile(q, ok)
  /\ UNCHANGED <<unitCall, platform, macInstalled, openDocs, workspaceManager, client, mirrors, passes,
                 binaryCheck, inklecateProcess, sent>>

\* The results checkPlatformAndDownloadBinaryDependency can call back with:
\* whether the configured executable exists; on macOS whether the prebuilt
\* binary is there or could be downloaded; true on every other platform.
PossibleCheckResults ==
  IF workspaceManager.initializationOptions.inklecateExecutablePath \notin {Undefined, ""}
    THEN BOOLEAN
    ELSE IF platform = "MacOs" THEN (IF macInstalled THEN {TRUE} ELSE BOOLEAN)
    ELSE {TRUE}

\* The callback onInitialized gives to
\* checkPlatformAndDownloadBinaryDependency: whatever `success` is, the
\* default settings are flagged as dirty and initializeInkWorkspaces is
\* called.  A successful download leaves the binary in vendor/.
OnBinaryCheck(success) ==
  /\ binaryCheck = "pending"
  /\ unitCall = NoCall
  /\ success \in PossibleCheckResults
  /\ binaryCheck' = IF success THEN "true" ELSE "false"
  /\ macInstalled' =
       IF /\ workspaceManager.initializationOptions.inklecateExecutablePath \in {Undefined, ""}
          /\ platform = "MacOs" /\ success
         THEN TRUE ELSE macInstalled
  /\ InitializeInkWorkspacesCall
  /\ UNCHANGED <<unitCall, platform, openDocs, workspaceManager, client, disk, requests,
                 inklecateProcess, procs, sent, shown>>

(* ---------------------------- specifications --------------------------- *)

NumRequested == Cardinality({r \in Runs : procs[r].phase # "none"})

ExplicitSettings ==
  [inklecateExecutablePath |-> "inklecate", mainStoryPath |-> <<"main.ink">>, runThroughMono |-> "false"]

ChoiceIndices == {1, 2}

\* The singleton slot under replacement: requests, spawns, tool output,
\* process ends and choices in every order, on one platform, with a passing
\* verification.
Init ==
  /\ platform = "Other"
  /\ macInstalled = FALSE
  /\ openDocs = <<MainDoc>>
  /\ inklecateProcess = None
  /\ procs = [r \in Runs |-> NoRun]
  /\ sent = <<>>
  /\ shown = {}
  /\ ServerReady

Next ==
  \/ compileStory(ExplicitSettings, MirroredWorkspace)
  \/ runStory(ExplicitSettings, MirroredWorkspace)
  \/ \E r \in Runs : spawnInklecate(r, TRUE, TRUE)
  \/ \E r \in Runs : NumChunks < MaxSlotChunks /\ OnStdoutData(r, ChunkError)
  \/ \E r \in Runs : OnStdoutClose(r)
  \/ \E r \in Runs : OnExit(r)
  \/ NumChoices < MaxChoices /\ chooseOption(1)

Spec == Init /\ [][Next]_vars

\* The singleton slot under failures and stops: as Spec, with spawn failures
\* and stopCurrentStory, and a silent tool.
NextStop ==
  \/ compileStory(ExplicitSettings, MirroredWorkspace)
  \/ runStory(ExplicitSettings, MirroredWorkspace)
  \/ \E r \in Runs : spawnInklecate(r, TRUE, TRUE)
  \/ \E r \in Runs : OnError(r)
  \/ \E r \in Runs : OnStdoutClose(r)
  \/ \E r \in Runs : OnExit(r)
  \/ stopCurrentStory

SpecStop == Init /\ [][NextStop]_vars

\* The verification and the spawn failures: every platform, every settings
\* choice, every outcome of Fs.access.
InitVerify ==
  /\ platform \in Platforms
  /\ macInstalled \in (IF platform = "MacOs" THEN BOOLEAN ELSE {FALSE})
  /\ openDocs = <<MainDoc>>
  /\ inklecateProcess = None
  /\ procs = [r \in Runs |-> NoRun]
  /\ sent = <<>>
  /\ shown = {}
  /\ ServerReady

NextVerify ==
  \/ \E settings \in SettingsChoices, inkWorkspace \in InkWorkspaces :
       NumRequested < MaxVerifyRuns /\ compileStory(settings, inkWorkspace)
  \/ \E settings \in SettingsChoices, inkWorkspace \in InkWorkspaces :
       NumRequested < MaxVerifyRuns /\ runStory(settings, inkWorkspace)
  \/ \E r \in Runs, execOk \in BOOLEAN, storyOk \in BOOLEAN : spawnInklecate(r, execOk, storyOk)
  \/ \E r \in Runs : OnError(r)
  \/ \E r \in Runs : OnStdoutClose(r)
  \/ \E r \in Runs : OnExit(r)
  \/ \E index \in ChoiceIndices : NumChoices < MaxChoices /\ chooseOption(index)

SpecVerify == InitVerify /\ [][NextVerify]_vars

\* The publication of diagnostics: every choice of open documents, every
\* chunk of tool output.  The "exit" handler is left to Spec: it assigns only
\* the slot, which none of these actions reads.
InitPublish ==
  /\ platform = "Other"
  /\ macInstalled = FALSE
  /\ openDocs \in OpenDocumentChoices
  /\ inklecateProcess = None
  /\ procs = [r \in Runs |-> NoRun]
  /\ sent = <<>>
  /\ shown = {}
  /\ ServerReady

NextPublish ==
  \/ compileStory(ExplicitSettings, MirroredWorkspace)
  \/ runStory(ExplicitSettings, MirroredWorkspace)
  \/ \E r \in Runs : spawnInklecate(r, TRUE, TRUE)
  \/ \E r \in Runs, text \in Chunks : NumChunks < MaxChunks /\ OnStdoutData(r, text)
  \/ \E r \in Runs : OnStdoutClose(r)

SpecPublish == InitPublish /\ [][NextPublish]_vars

MaxTextLen == 10

MaxMirrors == 2

\* The calls of initializeInkWorkspaces.
MaxPasses == 2

\* The document changes and the compile or play commands.
MaxRequests == 2

\* The text of the n-th change of a document.
EditText(n) == ToString(n)

\* The settings a client holds for a resource.
ResourceSettingsChoices ==
  { AbsentSettings,
    [inklecateExecutablePath |-> "inklecate", mainStoryPath |-> <<"story.ink">>,
     runThroughMono |-> "true"],
    [inklecateExecutablePath |-> "", mainStoryPath |-> <<>>, runThroughMono |-> "false"],
    [inklecateExecutablePath |-> Undefined, mainStoryPath |-> <<"story.ink">>,
     runThroughMono |-> Undefined] }

\* params.initializationOptions.ink
InitializationOptionChoices ==
  { AbsentSettings,
    [inklecateExecutablePath |-> "/opt/inklecate", mainStoryPath |-> <<"init.ink">>,
     runThroughMono |-> "/usr/bin/mono"],
    [inklecateExecutablePath |-> "/opt/inklecate", mainStoryPath |-> <<>>,
     runThroughMono |-> Undefined] }

OutsideDoc == [scheme |-> "file", path |-> <<"elsewhere", "b.ink">>]

\* The commands and the document changes: every initialization option,
\* every resource setting, a client with or without the configuration
\* capability.
InitCommands ==
  /\ platform = "Other"
  /\ macInstalled = FALSE
  /\ openDocs = <<MainDoc>>
  /\ inklecateProcess = None
  /\ procs = [r \in Runs |-> NoRun]
  /\ sent = <<>>
  /\ shown = {}
  /\ \E options \in InitializationOptionChoices, configuration \in BOOLEAN, ready \in BOOLEAN :
       /\ workspaceManager =
            [ReadyWorkspaceManager EXCEPT !.initializationOptions = options,
                                          !.capabilities.configuration = configuration,
                                          !.canCompile = ready]
       /\ \E settings \in (IF configuration THEN ResourceSettingsChoices ELSE {AbsentSettings}) :
            client = [settings |-> settings, folders |-> <<MirroredWorkspace.uri>>,
                      lastCommand |-> "none"]
  /\ disk = MirroredFiles
  /\ mirrors = <<>>
  /\ passes = <<>>
  /\ requests = <<>>
  /\ binaryCheck = "true"
  /\ unitCall = NoCall

NextCommands ==
  \/ \E command \in {"compile-story", "play-story"} :
       /\ NumRequested < MaxVerifyRuns /\ Len(requests) < MaxRequests
       /\ onExecuteCommand(command, <<MainDoc>>)
  \/ \E command \in {"compile-story", "play-story"} :
       /\ Len(passes) < MaxPasses /\ Len(requests) < MaxRequests
       /\ onExecuteCommand(command, <<>>)
  \/ \E arguments \in {<<>>, <<0>>, <<1>>} :
       NumChoices < MaxChoices /\ onExecuteCommand("select-option", arguments)
  \/ onExecuteCommand("kill-inklecate", <<>>)
  \/ /\ NumRequested < MaxVerifyRuns /\ Len(requests) < MaxRequests
     /\ \A q \in 1..Len(requests) : requests[q].phase \notin {"mkdirp", "writeFile"}
     /\ onDidChangeContent(MainDoc, EditText(Len(requests) + 1))
  \/ /\ Len(passes) < MaxPasses /\ Len(requests) < MaxRequests
     /\ onDidChangeContent(OutsideDoc, EditText(Len(requests) + 1))
  \/ \E p \in 1..Len(passes), ok \in BOOLEAN :
       Len(mirrors) + Len(client.folders) <= MaxMirrors /\ OnWorkspaceFolders(p, ok)
  \/ \E q \in 1..Len(requests), ok \in BOOLEAN : OnMkdirp(q, ok)
  \/ \E q \in 1..Len(requests), ok \in BOOLEAN : OnWriteFile(q, ok)
  \/ \E r \in Runs : spawnInklecate(r, TRUE, TRUE)
  \/ \E r \in Runs : OnStdoutClose(r)
  \/ \E r \in Runs : OnExit(r)

SpecCommands == InitCommands /\ [][NextCommands]_vars

LibraryFolder == [scheme |-> "file", path |-> <<"lib">>]

\* The projects on disk when the server starts.
TreeChoices ==
  { FilesAt({<<"ws", "main.ink">>, <<"ws", "story", "a.ink2">>, <<"ws", ".config">>}),
    FilesAt({<<"ws", "main.ink">>, <<"ws", "sub", "a.ink">>, <<"ws", "story", "readme.md">>,
             <<"ws", "notes">>, <<"lib", "story.ink">>}),
    FilesAt({<<"lib", "story.ink">>}) }

FolderChoices == {<<MirroredWorkspace.uri>>, <<MirroredWorkspace.uri, LibraryFolder>>}

\* The mirroring of the workspaces: a server that has mirrored nothing yet,
\* every project, every outcome of the file operations.
InitMirror ==
  /\ platform = "Other"
  /\ macInstalled = FALSE
  /\ openDocs = <<MainDoc>>
  /\ inklecateProcess = None
  /\ procs = [r \in Runs |-> NoRun]
  /\ sent = <<>>
  /\ shown = {}
  /\ workspaceManager =
       [ReadyWorkspaceManager EXCEPT !.canCompile = FALSE, !.workspaceDirectories = <<>>]
  /\ \E folders \in FolderChoices :
       client = [settings |-> AbsentSettings, folders |-> folders, lastCommand |-> "none"]
  /\ disk \in TreeChoices
  /\ mirrors = <<>>
  /\ passes = <<>>
  /\ requests = <<>>
  /\ binaryCheck = "true"
  /\ unitCall = NoCall

NextMirror ==
  \/ Len(passes) < MaxPasses /\ initializeInkWorkspaces
  \/ \E p \in 1..Len(passes), ok \in BOOLEAN :
       Len(mirrors) + Len(client.folders) <= MaxMirrors /\ OnWorkspaceFolders(p, ok)
  \/ \E m \in 1..Len(mirrors), ok \in BOOLEAN : OnMkdir(m, ok)
  \/ \E m \in 1..Len(mirrors), ok \in BOOLEAN :
       \E copied \in SUBSET CopiedFrom(FsPath(mirrors[m].folder)) : OnCopy(m, ok, copied)

SpecMirror == InitMirror /\ [][NextMirror]_vars

\* The server from onInitialized on, on macOS without the prebuilt binary:
\* nothing is mirrored, the check of the binary has not called back.  Every
\* result of the check, file operations that succeed or fail, a copy that
\* copies everything or nothing, changes of a document of the workspace and
\* of a document outside it, the compile command.
InitServer ==
  /\ platform = "MacOs"
  /\ macInstalled = FALSE
  /\ openDocs = <<MainDoc>>
  /\ inklecateProcess = None
  /\ procs = [r \in Runs |-> NoRun]
  /\ sent = <<>>
  /\ shown = {}
  /\ workspaceManager =
       [ReadyWorkspaceManager EXCEPT !.canCompile = FALSE, !.workspaceDirectories = <<>>]
  /\ client = [settings |-> AbsentSettings, folders |-> <<MirroredWorkspace.uri>>,
               lastCommand |-> "none"]
  /\ disk = ProjectFiles
  /\ mirrors = <<>>
  /\ passes = <<>>
  /\ requests = <<>>
  /\ binaryCheck = "pending"
  /\ unitCall = NoCall

NextServer ==
  \/ \E success \in BOOLEAN : OnBinaryCheck(success)
  \/ Len(passes) < MaxPasses /\ initializeInkWorkspaces
  \/ \E p \in 1..Len(passes), ok \in BOOLEAN :
       Len(mirrors) + Len(client.folders) <= MaxMirrors /\ OnWorkspaceFolders(p, ok)
  \/ \E m \in 1..Len(mirrors), ok \in BOOLEAN : OnMkdir(m, ok)
  \/ \E m \in 1..Len(mirrors), ok \in BOOLEAN :
       \E copied \in {{}, CopiedFrom(FsPath(mirrors[m].folder))} : OnCopy(m, ok, copied)
  \/ \E document \in {MainDoc, OutsideDoc} :
       /\ Len(requests) < MaxRequests
       /\ onDidChangeContent(document, EditText(Len(requests) + 1))
  \/ Len(requests) < MaxRequests /\ onExecuteCommand("compile-story", <<MainDoc>>)
  \/ \E q \in 1..Len(requests), ok \in BOOLEAN : OnMkdirp(q, ok)
  \/ \E q \in 1..Len(requests), ok \in BOOLEAN : OnWriteFile(q, ok)
  \/ \E r \in Runs : spawnInklecate(r, TRUE, TRUE)

SpecServer == InitServer /\ [][NextServer]_vars

\* The InkErrors a call of notifyClientAndPushDiagnostics is given.
MaxErrors == 2

ErrorChoices ==
  {[filePath |-> FsPath(document), lineNumber |-> 4, message |-> "text", type |-> type] :
     document \in {MainDoc, SubDoc}, type \in InkErrorTypes}

ErrorLists == UNION {[1..n -> ErrorChoices] : n \in 0..MaxErrors}

\* DiagnosticManager.notifyClientAndPushDiagnostics called on its own.
ReturnNotifyClientAndPushDiagnostics ==
  /\ unitCall.function = "notifyClientAndPushDiagnostics" /\ ~unitCall.returned
  /\ LET out == notifyClientAndPushDiagnostics(
                  openDocs, MirroredWorkspace,
                  WithJsonSuffix(PathJoin(MirroredWorkspace.tempDir, <<"main.ink">>)),
                  unitCall.arguments, 0)
     IN  /\ sent' = sent \o out
         /\ unitCall' = [unitCall EXCEPT !.result = out, !.returned = TRUE]
  /\ UNCHANGED <<platform, macInstalled, openDocs, workspaceManager, client, disk, mirrors,
                 passes, requests, binaryCheck, inklecateProcess, procs, shown>>

\* The publication of diagnostics: two open documents, every list of errors
\* of every kind in either document.
InitDiagnostics ==
  /\ platform = "Other"
  /\ macInstalled = FALSE
  /\ openDocs = <<MainDoc, SubDoc>>
  /\ inklecateProcess = None
  /\ procs = [r \in Runs |-> NoRun]
  /\ sent = <<>>
  /\ shown = {}
  /\ workspaceManager = ReadyWorkspaceManager
  /\ client = [settings |-> AbsentSettings, folders |-> <<MirroredWorkspace.uri>>,
               lastCommand |-> "none"]
  /\ disk = MirroredFiles
  /\ mirrors = <<>>
  /\ passes = <<>>
  /\ requests = <<>>
  /\ binaryCheck = "true"
  /\ \E errors \in ErrorLists :
       unitCall = [function |-> "notifyClientAndPushDiagnostics", arguments |-> errors,
                   result |-> <<>>, returned |-> FALSE]

NextDiagnostics == ReturnNotifyClientAndPushDiagnostics

SpecDiagnostics == InitDiagnostics /\ [][NextDiagnostics]_vars

\* The paths isFilePathChildOfDirPath is given: relative, from the root, from
\* a drive, with and without a leading "./".
RootChoices == {"", "/", "C:"}

FileSegmentChoices ==
  { <<"path", "to", "file">>, <<"path", "file">>, <<"path", "to", "..", "file">>,
    <<"path", "..hidden", "file">>, <<"path", "to">>, <<"..", "path", "file">> }

DirSegmentChoices ==
  { <<"path", "to">>, <<"path", "to", "..">>, <<"path">>, <<"path", "from">>, <<"newpath">>,
    <<"path", "from", "directory", "..">>, <<>> }

FilePathChoices ==
  {RawPath(root, (IF dotted THEN <<".">> ELSE <<>>) \o segs, FALSE) :
     root \in RootChoices, dotted \in BOOLEAN, segs \in FileSegmentChoices}

DirPathChoices ==
  {RawPath(root, (IF dotted THEN <<".">> ELSE <<>>) \o segs, slash) :
     root \in RootChoices \cup {"D:"}, dotted \in BOOLEAN, segs \in DirSegmentChoices,
     slash \in BOOLEAN}

\* isFilePathChildOfDirPath called on its own.
ReturnIsFilePathChildOfDirPath ==
  /\ unitCall.function = "isFilePathChildOfDirPath" /\ ~unitCall.returned
  /\ unitCall' =
       [unitCall EXCEPT
          !.result = isFilePathChildOfDirPath(unitCall.arguments[1], unitCall.arguments[2]),
          !.returned = TRUE]
  /\ UNCHANGED <<platform, macInstalled, openDocs, workspaceManager, client, disk, mirrors,
                 passes, requests, binaryCheck, inklecateProcess, procs, sent, shown>>

\* The test of a path against a directory: every pair of paths, on Windows
\* and elsewhere.
InitPaths ==
  /\ platform \in {"Other", "Windows"}
  /\ macInstalled = FALSE
  /\ openDocs = <<MainDoc>>
  /\ inklecateProcess = None
  /\ procs = [r \in Runs |-> NoRun]
  /\ sent = <<>>
  /\ shown = {}
  /\ workspaceManager = ReadyWorkspaceManager
  /\ client = [settings |-> AbsentSettings, folders |-> <<MirroredWorkspace.uri>>,
               lastCommand |-> "none"]
  /\ disk = MirroredFiles
  /\ mirrors = <<>>
  /\ passes = <<>>
  /\ requests = <<>>
  /\ binaryCheck = "true"
  /\ \E filePath \in FilePathChoices, dirPath \in DirPathChoices :
       unitCall = [function |-> "isFilePathChildOfDirPath",
                   arguments |-> <<filePath, dirPath>>, result |-> <<>>, returned |-> FALSE]

NextPaths == ReturnIsFilePathChildOfDirPath

SpecPaths == InitPaths /\ [][NextPaths]_vars

\* The paths isInkFile is given, and the files on disk when it is called.
InkFilePathChoices ==
  {AbsolutePath(segs) : segs \in { <<"ws", "main.ink">>, <<"ws", "story", "a.ink2">>,
                                   <<"ws", "foo.bar.ink">>, <<"ws", "readme.md">>, <<"ws", "ink.txt">>,
                                   <<"ws", "notes">>, <<"ws">>, <<"ws", "lib.ink">>,
                                   <<"nowhere", "main.ink">>, <<"nowhere", "readme.md">> }}
    \cup {RawPath("", segs, FALSE) : segs \in { <<"ink">>, <<"foobar">>, <<"foo.bar.ink">>,
                                                 <<"lib.ink", "notes">> }}

InkFileTreeChoices ==
  { FilesAt({<<"ws", "main.ink">>, <<"ws", "story", "a.ink2">>, <<"ws", "foo.bar.ink">>,
             <<"ws", "readme.md">>, <<"ws", "notes">>, <<"ws", "lib.ink", "a.ink">>,
             <<"home", "ink">>, <<"home", "lib.ink", "notes">>}),
    FilesAt({<<"ws", "main.ink">>, <<"ws", "lib.ink">>, <<"ws", "ink.txt">>,
             <<"home", "foo.bar.ink">>}),
    FilesAt({<<"lib", "story.ink">>}) }

\* isInkFile called on its own.
ReturnIsInkFile ==
  /\ unitCall.function = "isInkFile" /\ ~unitCall.returned
  /\ unitCall' =
       [unitCall EXCEPT
          !.result = isInkFileCall(unitCall.arguments.filePath,
                                   unitCall.arguments.allowDirectories),
          !.returned = TRUE]
  /\ UNCHANGED <<platform, macInstalled, openDocs, workspaceManager, client, disk, mirrors,
                 passes, requests, binaryCheck, inklecateProcess, procs, sent, shown>>

\* The test of a path for an ink file: every path, on every tree, with and
\* without directories allowed.
InitInkFile ==
  /\ platform = "Other"
  /\ macInstalled = FALSE
  /\ openDocs = <<MainDoc>>
  /\ inklecateProcess = None
  /\ procs = [r \in Runs |-> NoRun]
  /\ sent = <<>>
  /\ shown = {}
  /\ workspaceManager = ReadyWorkspaceManager
  /\ client = [settings |-> AbsentSettings, folders |-> <<MirroredWorkspace.uri>>,
               lastCommand |-> "none"]
  /\ disk \in InkFileTreeChoices
  /\ mirrors = <<>>
  /\ passes = <<>>
  /\ requests = <<>>
  /\ binaryCheck = "true"
  /\ \E filePath \in InkFilePathChoices, allowDirectories \in BOOLEAN :
       unitCall = [function |-> "isInkFile",
                   arguments |-> [filePath |-> filePath, allowDirectories |-> allowDirectories],
                   result |-> <<>>, returned |-> FALSE]

NextInkFile == ReturnIsInkFile

SpecInkFile == InitInkFile /\ [][NextInkFile]_vars

\* A second workspace folder, mirrored, and a document of it.
LibraryWorkspace == [uri |-> LibraryFolder, hasTempDir |-> TRUE, tempDir |-> <<"tmp", "lib">>]

LibraryDoc == [scheme |-> "file", path |-> <<"lib", "story.ink">>]

LibrarySettings == [ExplicitSettings EXCEPT !.mainStoryPath = <<"story.ink">>]

ChunkLibraryError ==
  Chunk(FALSE, <<DiagLine("ERROR", <<"story.ink">>, 7, "unknown knot"), EmptyLine>>)

\* Two workspaces with an open document each: compilations of either, every
\* order of their output and of their ends.
InitWorkspaces ==
  /\ platform = "Other"
  /\ macInstalled = FALSE
  /\ openDocs = <<MainDoc, LibraryDoc>>
  /\ inklecateProcess = None
  /\ procs = [r \in Runs |-> NoRun]
  /\ sent = <<>>
  /\ shown = {}
  /\ workspaceManager =
       [ReadyWorkspaceManager EXCEPT !.workspaceDirectories = <<MirroredWorkspace, LibraryWorkspace>>]
  /\ client = [settings |-> AbsentSettings,
               folders |-> <<MirroredWorkspace.uri, LibraryFolder>>, lastCommand |-> "none"]
  /\ disk = FilesAt({<<"ws", "main.ink">>, <<"tmp", "uuid", "main.ink">>,
                     <<"lib", "story.ink">>, <<"tmp", "lib", "story.ink">>})
  /\ mirrors = <<>>
  /\ passes = <<>>
  /\ requests = <<>>
  /\ binaryCheck = "true"
  /\ unitCall = NoCall

NextWorkspaces ==
  \/ compileStory(ExplicitSettings, MirroredWorkspace)
  \/ compileStory(LibrarySettings, LibraryWorkspace)
  \/ \E r \in Runs : spawnInklecate(r, TRUE, TRUE)
  \/ \E r \in Runs, text \in {ChunkError, ChunkLibraryError} :
       NumChunks < MaxChunks /\ OnStdoutData(r, text)
  \/ \E r \in Runs : OnStdoutClose(r)

SpecWorkspaces == InitWorkspaces /\ [][NextWorkspaces]_vars

\* The lines of a text given to parseErrorsOrRenderStory.
MaxLines == 3

LineChoices ==
  { DiagLine("ERROR", <<"main.ink">>, 3, "bad syntax"),
    DiagLine("WARNING", <<"sub", "a.ink">>, 1, "unused"),
    TextLine("Once upon a time"), ChoiceLine(1, "Go north"), PromptLine, EmptyLine }

LineLists == UNION {[1..n -> LineChoices] : n \in 1..MaxLines}

\* parseErrorsOrRenderStory called on its own, with the StoryRenderer
\* sending what it is told to show.
ReturnParseErrorsOrRenderStory ==
  /\ unitCall.function = "parseErrorsOrRenderStory" /\ ~unitCall.returned
  /\ LET result == parseErrorsOrRenderStory(Chunk(FALSE, unitCall.arguments.lines),
                                            Dirname(ExplicitSettings.mainStoryPath),
                                            MirroredWorkspace, unitCall.arguments.isPlaying)
     IN  /\ unitCall' = [unitCall EXCEPT !.result = result, !.returned = TRUE]
         /\ sent' = sent \o RenderedAtData(0, result.events)
  /\ UNCHANGED <<platform, macInstalled, openDocs, workspaceManager, client, disk, mirrors,
                 passes, requests, binaryCheck, inklecateProcess, procs, shown>>

\* The parsing of the output of the tool: every text of up to MaxLines lines,
\* in compile mode and in play mode.
InitParse ==
  /\ platform = "Other"
  /\ macInstalled = FALSE
  /\ openDocs = <<MainDoc>>
  /\ inklecateProcess = None
  /\ procs = [r \in Runs |-> NoRun]
  /\ sent = <<>>
  /\ shown = {}
  /\ workspaceManager = ReadyWorkspaceManager
  /\ client = [settings |-> AbsentSettings, folders |-> <<MirroredWorkspace.uri>>,
               lastCommand |-> "none"]
  /\ disk = MirroredFiles
  /\ mirrors = <<>>
  /\ passes = <<>>
  /\ requests = <<>>
  /\ binaryCheck = "true"
  /\ \E lines \in LineLists, isPlaying \in BOOLEAN :
       unitCall = [function |-> "parseErrorsOrRenderStory",
                   arguments |-> [lines |-> lines, isPlaying |-> isPlaying],
                   result |-> <<>>, returned |-> FALSE]

NextParse == ReturnParseErrorsOrRenderStory

SpecParse == InitParse /\ [][NextParse]_vars

\* The settings of a run: mono by name, by path, by an empty path, or not.
SpawnSettingsChoices ==
  SettingsChoices
    \cup { [inklecateExecutablePath |-> "inklecate", mainStoryPath |-> <<"story.ink">>,
            runThroughMono |-> "/usr/bin/mono"],
           [inklecateExecutablePath |-> "inklecate", mainStoryPath |-> <<"main.ink">>,
            runThroughMono |-> ""] }

\* The spawning of the tool: every platform, every setting, both modes.
InitSpawn ==
  /\ platform \in Platforms
  /\ macInstalled \in (IF platform = "MacOs" THEN BOOLEAN ELSE {FALSE})
  /\ openDocs = <<MainDoc>>
  /\ inklecateProcess = None
  /\ procs = [r \in Runs |-> NoRun]
  /\ sent = <<>>
  /\ shown = {}
  /\ ServerReady

NextSpawn ==
  \/ \E settings \in SpawnSettingsChoices :
       NumRequested < MaxVerifyRuns /\ compileStory(settings, MirroredWorkspace)
  \/ \E settings \in SpawnSettingsChoices :
       NumRequested < MaxVerifyRuns /\ runStory(settings, MirroredWorkspace)
  \/ \E r \in Runs : spawnInklecate(r, TRUE, TRUE)
  \/ \E r \in Runs : OnStdoutClose(r)

SpecSpawn == InitSpawn /\ [][NextSpawn]_vars

\* optionalMacOsBundleName: the archive for process.arch, Undefined when there
\* is none.
optionalMacOsBundleName(arch) ==
  IF arch \in {"ia32", "x86"} THEN "inklecate_0.8.1-macos_i386.zip"
  ELSE IF arch = "x64" THEN "inklecate_0.8.1-macos_x64.zip"
  ELSE Undefined

\* The call of checkPlatformAndDownloadBinaryDependency after one more file
\* or network operation: `at` is the operation now pending, "done" when
\* there is none, `success` what the callback is called with, if it is.
InstallStep(at, called, success) ==
  [unitCall EXCEPT
     !.result = [at |-> at,
                 callbacks |-> IF called THEN Append(unitCall.result.callbacks, success)
                                         ELSE unitCall.result.callbacks],
     !.returned = TRUE]

\* checkPlatformAndDownloadBinaryDependency up to its return: a configured
\* executable is looked up with Fs.stat; on macOS the binary is looked up in
\* vendor/ when there is an archive for the architecture; on any other
\* platform the callback is called at once.
checkPlatformAndDownloadBinaryDependency ==
  /\ unitCall.function = "checkPlatformAndDownloadBinaryDependency" /\ ~unitCall.returned
  /\ LET configInk == workspaceManager.initializationOptions.inklecateExecutablePath
     IN  IF configInk \notin {Undefined, ""}
           THEN unitCall' = InstallStep("stat configured", FALSE, FALSE) /\ shown' = shown
         ELSE IF platform = "MacOs"
           THEN /\ unitCall' =
                     IF optionalMacOsBundleName(unitCall.arguments.arch) # Undefined
                       THEN InstallStep("stat vendor", FALSE, FALSE)
                       ELSE InstallStep("done", FALSE, FALSE)
                /\ shown' = shown
         ELSE IF platform # "Windows"
           THEN /\ unitCall' = InstallStep("done", TRUE, TRUE)
                /\ shown' = shown \cup {Show("console.warn", <<"unsupportedPlatform">>, 0)}
         ELSE unitCall' = InstallStep("done", TRUE, TRUE) /\ shown' = shown
  /\ UNCHANGED <<platform, macInstalled, openDocs, workspaceManager, client, disk, mirrors,
                 passes, requests, binaryCheck, inklecateProcess, procs, sent>>

\* The callback of Fs.stat(configInk).
OnStatConfigured(found) ==
  /\ unitCall.function = "checkPlatformAndDownloadBinaryDependency" /\ unitCall.returned
  /\ unitCall.result.at = "stat configured"
  /\ unitCall' = InstallStep("done", TRUE, found)
  /\ UNCHANGED <<platform, macInstalled, openDocs, workspaceManager, client, disk, mirrors,
                 passes, requests, binaryCheck, inklecateProcess, procs, sent, shown>>

\* The callback of Fs.stat(vendor/inklecate): the download starts when the
\* binary is not there.
OnStatVendor ==
  /\ unitCall.function = "checkPlatformAndDownloadBinaryDependency" /\ unitCall.returned
  /\ unitCall.result.at = "stat vendor"
  /\ unitCall' = IF isDefaultMacOsInklecateInstalled THEN InstallStep("done", TRUE, TRUE)
                                                      ELSE InstallStep("download", FALSE, FALSE)
  /\ UNCHANGED <<platform, macInstalled, openDocs, workspaceManager, client, disk, mirrors,
                 passes, requests, binaryCheck, inklecateProcess, procs, sent, shown>>

\* The callback of downloadDependency: the archive is extracted unless the
\* download failed.
OnDownload(error) ==
  /\ unitCall.function = "checkPlatformAndDownloadBinaryDependency" /\ unitCall.returned
  /\ unitCall.result.at = "download"
  /\ unitCall' = IF error THEN InstallStep("done", TRUE, FALSE)
                           ELSE InstallStep("extract", FALSE, FALSE)
  /\ shown' = IF error THEN shown \cup {Show("console.error", <<"installError">>, 0)} ELSE shown
  /\ UNCHANGED <<platform, macInstalled, openDocs, workspaceManager, client, disk, mirrors,
                 passes, requests, binaryCheck, inklecateProcess, procs, sent>>

\* The callback of Extract: the binary is in vendor/ unless it failed.
OnExtract(error) ==
  /\ unitCall.function = "checkPlatformAndDownloadBinaryDependency" /\ unitCall.returned
  /\ unitCall.result.at = "extract"
  /\ unitCall' = InstallStep("done", TRUE, ~error)
  /\ macInstalled' = ~error
  /\ shown' = IF error THEN shown \cup {Show("console.error", <<"extractError">>, 0)} ELSE shown
  /\ UNCHANGED <<platform, openDocs, workspaceManager, client, disk, mirrors,
                 passes, requests, binaryCheck, inklecateProcess, procs, sent>>

\* process.arch
ArchChoices == {"x64", "ia32", "arm64"}

\* The check of the binary when the server starts: every platform and
\* architecture, with and without a configured executable.
InitInstall ==
  /\ platform \in Platforms
  /\ macInstalled \in (IF platform = "MacOs" THEN BOOLEAN ELSE {FALSE})
  /\ openDocs = <<MainDoc>>
  /\ inklecateProcess = None
  /\ procs = [r \in Runs |-> NoRun]
  /\ sent = <<>>
  /\ shown = {}
  /\ \E configInk \in {Undefined, "", "/opt/inklecate"} :
       workspaceManager =
         [ReadyWorkspaceManager EXCEPT
            !.canCompile = FALSE, !.workspaceDirectories = <<>>,
            !.initializationOptions.inklecateExecutablePath = configInk]
  /\ client = [settings |-> AbsentSettings, folders |-> <<MirroredWorkspace.uri>>,
               lastCommand |-> "none"]
  /\ disk = ProjectFiles
  /\ mirrors = <<>>
  /\ passes = <<>>
  /\ requests = <<>>
  /\ binaryCheck = "pending"
  /\ \E arch \in ArchChoices :
       unitCall = [function |-> "checkPlatformAndDownloadBinaryDependency",
                   arguments |-> [arch |-> arch],
                   result |-> [at |-> "call", callbacks |-> <<>>], returned |-> FALSE]

NextInstall ==
  \/ checkPlatformAndDownloadBinaryDependency
  \/ \E found \in BOOLEAN : OnStatConfigured(found)
  \/ OnStatVendor
  \/ \E error \in BOOLEAN : OnDownload(error)
  \/ \E error \in BOOLEAN : OnExtract(error)

SpecInstall == InitInstall /\ [][NextInstall]_vars

\* The cutting of stdout into chunks: one run in either mode, every text,
\* every way the pipe cuts it.
NextChunks ==
  \/ NumRequested < MaxVerifyRuns /\ compileStory(ExplicitSettings, MirroredWorkspace)
  \/ NumRequested < MaxVerifyRuns /\ runStory(ExplicitSettings, MirroredWorkspace)
  \/ \E r \in Runs : spawnInklecate(r, TRUE, TRUE)
  \/ \E r \in Runs, text \in Texts : ToolPrints(r, text)
  \/ \E r \in Runs, n \in 1..MaxTextLen : OnStdoutText(r, n)
  \/ \E r \in Runs : OnStdoutClose(r)

SpecChunks == Init /\ [][NextChunks]_vars

(* ---------------------------- properties ------------------------------- *)

NotifyDidCompileStory == "inkWorkspace/didCompileStory"
NotifyPublishDiagnostics == "textDocument/publishDiagnostics"

\* The positions in `sent` of the messages of one type sent by run r.
SentBy(r, type) == {i \in 1..Len(sent) : sent[i].type = type /\ sent[i].by = r}

\* The positions in `sent` of the diagnostics run r published for a document.
PublishedBy(r, textDocument) ==
  {i \in SentBy(r, NotifyPublishDiagnostics) : sent[i].payload.uri = textDocument}

\* The diagnostics the client displays for a document: the last published.
PublishIndices(textDocument) ==
  {i \in 1..Len(sent) : sent[i].type = NotifyPublishDiagnostics
                        /\ sent[i].payload.uri = textDocument}

Published(textDocument) ==
  LET last == CHOOSE i \in PublishIndices(textDocument) :
                \A j \in PublishIndices(textDocument) : j <= i
  IN  sent[last].payload.diagnostics

\* The positions of what the DiagnosticManager sent.
SinkIndices ==
  {i \in 1..Len(sent) : sent[i].type \in {NotifyPublishDiagnostics, NotifyDidCompileStory}}

\* The run whose result was delivered last.
LastCycle == sent[CHOOSE i \in SinkIndices : \A j \in SinkIndices : j <= i].by

\* Whether the tool output of a run contains a diagnostic line.
HasDiagLine(chunks) ==
  \E i \in 1..Len(chunks) : \E j \in 1..Len(chunks[i].lines) : chunks[i].lines[j].form = "diag"

RECURSIVE ParsedFrom(_, _)
\* The errors the parser returns for the chunks of run r, chunk after chunk.
ParsedFrom(r, chunks) ==
  IF chunks = <<>> THEN <<>>
  ELSE parseErrorsOrRenderStory(Head(chunks), Dirname(procs[r].settings.mainStoryPath),
                                procs[r].workspace, procs[r].isPlaying).errors
       \o ParsedFrom(r, Tail(chunks))

\* C1: chooseOption writes to a process's stdin if and only if a started
\* process is running at that moment; in particular it is not a no-op while
\* the most recently started process is running.
C1_ChoiceWrittenIffRunning ==
  (ChoiceTarget # None) <=> (\E r \in Runs : Running(r))

\* C2: the slot never refers to a process that has exited, whatever the order
\* of its close and exit, and once every started process has exited the slot
\* is empty, also when a run was started before an earlier process exited.
C2_ExitClearsSlot ==
  /\ \A r \in Runs : procs[r].exited => inklecateProcess # r
  /\ (\A r \in Runs : Spawned(r) => procs[r].exited) => inklecateProcess = None

\* Two overlapping runs have both exited, one of them before its stdout
\* closed and the other with its stdout closed.
C2_Witness ==
  /\ \E r \in Runs : procs[r].replaced # None
  /\ \E r \in Runs : procs[r].exited /\ ~procs[r].closed
  /\ \E r \in Runs : procs[r].exited /\ procs[r].closed
  /\ \A r \in Runs : Spawned(r) /\ procs[r].exited
  /\ inklecateProcess = None

\* C3 (step): a spawn makes the slot refer to the new process and leaves the
\* other processes as they are; a choice is only ever written to the most
\* recently started process; a process whose stdout closes delivers its
\* accumulated diagnostics for every open document.
C3_Step ==
  /\ \A r \in Runs :
       (procs[r].phase = "verifying" /\ procs'[r].phase = "spawned")
         => /\ inklecateProcess' = r
            /\ \A q \in Runs \ {r} : procs'[q] = procs[q]
  /\ \A r \in Runs :
       procs'[r].stdin # procs[r].stdin => procs[r].order = NumSpawned
  /\ \A r \in Runs :
       (~procs[r].closed /\ procs'[r].closed)
         => \A d \in 1..Len(openDocs) :
              \E i \in (Len(sent) + 1)..Len(sent') :
                /\ sent'[i].type = NotifyPublishDiagnostics
                /\ sent'[i].by = r
                /\ sent'[i].payload =
                     [uri |-> openDocs[d],
                      diagnostics |-> DiagnosticsFor(openDocs[d], procs[r].errors)]

\* C3: when a run is started while an earlier process is running, the slot
\* refers to the new process, later choices reach only the newest process and
\* never a replaced one, and the replaced process still delivers its
\* diagnostics when its stdout closes.
C3_ReplacedProcessUnreachable == [][C3_Step]_vars

\* A process was replaced while occupying the slot, the choice went to its
\* successor, and the replaced process has delivered a diagnostic at its close.
C3_Witness ==
  \E old \in Runs, new \in Runs :
    /\ procs[new].replaced = old
    /\ procs[new].stdin # <<>>
    /\ procs[old].stdin = <<>>
    /\ procs[old].closed
    /\ procs[old].errors # <<>>
    /\ \E i \in PublishedBy(old, MainDoc) : sent[i].payload.diagnostics # <<>>

\* C4: stopCurrentStory terminates a running process whenever one is running,
\* does nothing when none is running, and a second call changes nothing more.
C4_StopTerminatesRunning ==
  LET after == ProcsAfterStop(procs, inklecateProcess)
  IN  /\ (\E r \in Runs : Running(r)) => (\E r \in Runs : Running(r) /\ after[r].killed)
      /\ (\A r \in Runs : ~Running(r)) => after = procs
      /\ ProcsAfterStop(after, inklecateProcess) = after

\* C5: a request whose pre-spawn verification fails shows an error to the
\* user and spawns no process.
C5_FailedVerificationAborts ==
  \A r \in Runs :
    procs[r].verificationFailed
      => /\ \E m \in shown : m.chan = "showErrorMessage" /\ m.run = r
         /\ ~Spawned(r)

\* C6: after the "error" event of a spawned process the user has been shown
\* the likely causes and the slot does not refer to the failed process.
C6_SpawnErrorLeavesNoDanglingSlot ==
  \A r \in Runs :
    (procs[r].errored /\ ~procs[r].exited)
      => /\ Show("showErrorMessage", PossibleReasons(procs[r].settings), r) \in shown
         /\ inklecateProcess # r

\* C7: a compile cycle whose tool output has no diagnostic sends exactly one
\* didCompileStory and publishes an empty list for every open document.
C7_OneDidCompileStory ==
  \A r \in Runs :
    (procs[r].closed /\ ~procs[r].isPlaying /\ ~HasDiagLine(procs[r].chunks))
      => /\ Cardinality(SentBy(r, NotifyDidCompileStory)) = 1
         /\ \A d \in 1..Len(openDocs) :
              \E i \in PublishedBy(r, openDocs[d]) : sent[i].payload.diagnostics = <<>>

\* C8: a compile cycle that reported a diagnostic sends no didCompileStory,
\* and publishes once for every open document.
C8_NoDidCompileStoryWithDiagnostics ==
  \A r \in Runs :
    (procs[r].closed /\ ~procs[r].isPlaying /\ procs[r].errors # <<>>)
      => /\ SentBy(r, NotifyDidCompileStory) = {}
         /\ \A d \in 1..Len(openDocs) : Cardinality(PublishedBy(r, openDocs[d])) = 1

\* C9: a compile cycle sends nothing to the diagnostics sink before its
\* stdout has closed, and then publishes once per open document, with the
\* diagnostics parsed from all the chunks of the cycle.
C9_NoPartialFlush ==
  \A r \in Runs :
    ~procs[r].isPlaying
      => /\ ~procs[r].closed
              => /\ SentBy(r, NotifyPublishDiagnostics) = {}
                 /\ SentBy(r, NotifyDidCompileStory) = {}
         /\ procs[r].closed
              => \A d \in 1..Len(openDocs) :
                   /\ Cardinality(PublishedBy(r, openDocs[d])) = 1
                   /\ \A i \in PublishedBy(r, openDocs[d]) :
                        sent[i].payload.diagnostics =
                          DiagnosticsFor(openDocs[d], ParsedFrom(r, procs[r].chunks))

\* A compile cycle has closed after two chunks that both carried diagnostics
\* of the main document, which are published together.
C9_Witness ==
  \E r \in Runs :
    /\ ~procs[r].isPlaying /\ procs[r].closed
    /\ Len(procs[r].chunks) = 2
    /\ \A c \in 1..2 : parseErrorsOrRenderStory(procs[r].chunks[c],
                         Dirname(procs[r].settings.mainStoryPath),
                         procs[r].workspace, FALSE).errors # <<>>
    /\ \E i \in PublishedBy(r, MainDoc) : Len(sent[i].payload.diagnostics) >= 2

\* C10: after a cycle's result is published, every open document displays
\* exactly the diagnostics of that cycle that name it, nothing of earlier
\* cycles.
C10_DiagnosticsReplaced ==
  SinkIndices # {}
    => \A d \in 1..Len(openDocs) :
         /\ PublishIndices(openDocs[d]) # {}
         /\ Published(openDocs[d]) = DiagnosticsFor(openDocs[d], procs[LastCycle].errors)

\* The main document had diagnostics from one cycle and has received an empty
\* list from a later cycle.
C10_Witness ==
  \E i \in PublishIndices(MainDoc), j \in PublishIndices(MainDoc) :
    /\ i < j
    /\ sent[i].by # sent[j].by
    /\ sent[i].payload.diagnostics # <<>>
    /\ sent[j].payload.diagnostics = <<>>
    /\ Published(MainDoc) = <<>>

RuntimeNotifications ==
  {"inkRuntime/text", "inkRuntime/tag", "inkRuntime/choice", "inkRuntime/prompt",
   "inkRuntime/endOfStory", "inkRuntime/error"}

\* The runtime notifications of run r, in the order in which they were sent.
RuntimeSentBy(r) ==
  SelectSeq(sent, LAMBDA m : m.by = r /\ m.type \in RuntimeNotifications)

RECURSIVE RenderedFrom(_, _)
\* The renderer calls of the parser for the chunks of run r, chunk after chunk.
RenderedFrom(r, chunks) ==
  IF chunks = <<>> THEN <<>>
  ELSE parseErrorsOrRenderStory(Head(chunks), Dirname(procs[r].settings.mainStoryPath),
                                procs[r].workspace, procs[r].isPlaying).events
       \o RenderedFrom(r, Tail(chunks))

\* Whether the parser leaves a chunk with an exception.
ChunkThrows(chunk) ==
  \E l \in 1..Len(chunk.lines) : chunk.lines[l].form = "diag" /\ ~chunk.lines[l].hasFile

\* Whether the accumulated errors of run r hold the InkError of a line.
InErrors(r, line) ==
  \E e \in 1..Len(procs[r].errors) :
    /\ procs[r].errors[e].type = line.kind
    /\ procs[r].errors[e].lineNumber = line.lineNo
    /\ procs[r].errors[e].message = line.msg

\* C11: a play-mode run whose stdout has closed has emitted the end-of-story
\* event exactly once, whether or not the tool printed its sentinel line.
C11_EndOfStoryOnce ==
  \A r \in Runs :
    (procs[r].isPlaying /\ procs[r].closed)
      => Cardinality(SentBy(r, "inkRuntime/endOfStory")) = 1

\* C12: a process sends nothing to the diagnostics sink before its stdout
\* closes; at its close its accumulated diagnostics are published once for
\* every open document, any didCompileStory carries <mainStoryTempPath>.json,
\* also when a later run was started in the meantime; what a document
\* displays was published by the cycle that finished last.
C12_DeliveredOnceAtClose ==
  /\ \A r \in Runs :
       /\ ~procs[r].closed
            => SentBy(r, NotifyPublishDiagnostics) \cup SentBy(r, NotifyDidCompileStory) = {}
       /\ procs[r].closed
            => /\ \A d \in 1..Len(openDocs) :
                    /\ Cardinality(PublishedBy(r, openDocs[d])) = 1
                    /\ \A i \in PublishedBy(r, openDocs[d]) :
                         sent[i].payload.diagnostics =
                           DiagnosticsFor(openDocs[d], procs[r].errors)
               /\ \A i \in SentBy(r, NotifyDidCompileStory) :
                    sent[i].payload.storyUri.path =
                      [path |-> procs[r].workspace.tempDir \o <<"main.ink">>, suffix |-> ".json"]
  /\ \A d \in 1..Len(openDocs) :
       \A i \in PublishIndices(openDocs[d]) :
         (\A j \in PublishIndices(openDocs[d]) : j <= i) => sent[i].by = LastCycle

\* A run was replaced by a later run, the later run finished first, and the
\* replaced run has then delivered its own, different diagnostics.
C12_Witness ==
  \E old \in Runs, new \in Runs :
    /\ procs[new].replaced = old
    /\ procs[old].closed /\ procs[new].closed
    /\ procs[old].errors # <<>> /\ procs[new].errors = <<>>
    /\ PublishIndices(MainDoc) # {}
    /\ LastCycle = old
    /\ Published(MainDoc) # <<>>

\* C13: a RUNTIME ERROR or RUNTIME WARNING line is reported as a runtime error
\* event and kept out of the diagnostics in play mode, and is added to the
\* diagnostics in compile mode; ERROR, WARNING and TODO lines are added to the
\* diagnostics in both modes.
C13_RuntimeKindsRouted ==
  \A r \in Runs : \A c \in 1..Len(procs[r].chunks) :
    LET chunk == procs[r].chunks[c]
    IN  \A l \in 1..Len(chunk.lines) :
          LET line == chunk.lines[l]
          IN  (line.form = "diag" /\ ~ChunkThrows(chunk))
                => IF line.kind \in {"RUNTIME ERROR", "RUNTIME WARNING"} /\ procs[r].isPlaying
                     THEN /\ \E i \in SentBy(r, "inkRuntime/error") :
                               sent[i].payload.msg = line.msg
                          /\ ~InErrors(r, line)
                     ELSE InErrors(r, line)

\* C14: a run started by the play-story command is in play mode, and a run
\* started by the compile-story command is in compile mode.
C14_CommandSetsMode ==
  \A r \in Runs :
    /\ procs[r].origin = "play-story" => procs[r].isPlaying
    /\ procs[r].origin = "compile-story" => ~procs[r].isPlaying

\* C15: the step in which the server receives the kill-inklecate command
\* is a call of stopCurrentStory: kill() is called on the process of the
\* slot.
C15_KillCommandStops ==
  [][(client.lastCommand # "kill-inklecate" /\ client'.lastCommand = "kill-inklecate")
       => procs' = ProcsAfterStop(procs, inklecateProcess)]_vars

\* C16: a compile-mode run sends no runtime notification; the runtime
\* notifications of a play-mode run are, at every moment, those of the lines
\* of the chunks received so far, in the order of the lines, followed by the
\* end of story once stdout has closed.
C16_RuntimeEventsInOrder ==
  \A r \in Runs :
    IF ~procs[r].isPlaying THEN RuntimeSentBy(r) = <<>>
    ELSE /\ Len(RuntimeSentBy(r)) =
              Len(RenderedFrom(r, procs[r].chunks)) + (IF procs[r].closed THEN 1 ELSE 0)
         /\ \A i \in 1..Len(RenderedFrom(r, procs[r].chunks)) :
              /\ RuntimeSentBy(r)[i].type = RenderedFrom(r, procs[r].chunks)[i].type
              /\ RuntimeSentBy(r)[i].payload = RenderedFrom(r, procs[r].chunks)[i].payload

\* A play-mode run has received the story chunk and then the end of the
\* story while its stdout is still open: text, choice, prompt, text and end
\* of story were sent in this order.
C16_Witness ==
  \E r \in Runs :
    /\ procs[r].isPlaying /\ ~procs[r].closed
    /\ procs[r].chunks = <<ChunkStory, ChunkEndOfStory>>
    /\ [i \in 1..Len(RuntimeSentBy(r)) |-> RuntimeSentBy(r)[i].type] =
         <<"inkRuntime/text", "inkRuntime/choice", "inkRuntime/prompt",
           "inkRuntime/text", "inkRuntime/endOfStory">>

\* C17: once the whole output of a run has been delivered, in whatever
\* chunks, the diagnostics and the runtime notifications of the run are those
\* of the output parsed as a single chunk.
C17_ChunkingInvariant ==
  \A r \in Runs :
    (procs[r].output # <<>> /\ procs[r].stdout = <<>>)
      => LET whole == parseErrorsOrRenderStory(ChunkOfText(procs[r].output),
                        Dirname(procs[r].settings.mainStoryPath),
                        procs[r].workspace, procs[r].isPlaying)
         IN  /\ procs[r].errors = whole.errors
             /\ RenderedFrom(r, procs[r].chunks) = whole.events

\* The first of three values that is set.
FirstSet(a, b, c, unset) == IF a \notin unset THEN a ELSE IF b \notin unset THEN b ELSE c

\* C18: the settings of every run, started by a document change or by a
\* command, are field by field the value the client holds for the resource
\* when it is set, else the initialization option when it is set, else the
\* default.
C18_SettingsPrecedence ==
  \A r \in Runs :
    procs[r].phase # "none"
      => LET resource == client.settings
             options == workspaceManager.initializationOptions
             defaults == getDefaultSettings
         IN  procs[r].settings =
               [inklecateExecutablePath |->
                  FirstSet(resource.inklecateExecutablePath, options.inklecateExecutablePath,
                           defaults.inklecateExecutablePath, {Undefined, ""}),
                mainStoryPath |->
                  FirstSet(resource.mainStoryPath, options.mainStoryPath,
                           defaults.mainStoryPath, {<<>>}),
                runThroughMono |->
                  FirstSet(resource.runThroughMono, options.runThroughMono,
                           defaults.runThroughMono, {Undefined})]

\* C19: the settings a run uses are mergeSettings of the settings it was
\* asked with and the defaults: each path is the one asked when it is a
\* non-empty string, else the default; runThroughMono is the one asked
\* when it is defined, false included, else the default.  Settings with
\* every field set are unchanged, and empty settings give the defaults.
C19_MergeFieldWise ==
  \A r \in Runs :
    procs[r].phase # "none"
      => LET asked == procs[r].requested
             merged == procs[r].settings
             defaults == getDefaultSettings
         IN  /\ merged.inklecateExecutablePath =
                  (IF asked.inklecateExecutablePath \in {Undefined, ""}
                     THEN defaults.inklecateExecutablePath
                     ELSE asked.inklecateExecutablePath)
             /\ merged.mainStoryPath =
                  (IF asked.mainStoryPath = <<>> THEN defaults.mainStoryPath
                                                ELSE asked.mainStoryPath)
             /\ merged.runThroughMono =
                  (IF asked.runThroughMono = Undefined THEN defaults.runThroughMono
                                                      ELSE asked.runThroughMono)
             /\ (/\ asked.inklecateExecutablePath \notin {Undefined, ""}
                 /\ asked.mainStoryPath # <<>>
                 /\ asked.runThroughMono # Undefined) => merged = asked
             /\ asked = AbsentSettings => merged = defaults

\* A run asked with an empty executable path, no main story and
\* runThroughMono false, where the default is to run through mono: the
\* paths are the defaults and runThroughMono is still false.
C19_Witness ==
  \E r \in Runs :
    /\ procs[r].phase # "none"
    /\ procs[r].requested.inklecateExecutablePath = ""
    /\ procs[r].requested.runThroughMono = "false"
    /\ getDefaultSettings.runThroughMono = "true"
    /\ procs[r].settings.runThroughMono = "false"
    /\ procs[r].settings.inklecateExecutablePath = getDefaultSettings.inklecateExecutablePath
    /\ procs[r].settings.mainStoryPath = getDefaultSettings.mainStoryPath

\* C20: once a mirror has been created, the temporary directory holds a file
\* at a relative path exactly when the workspace holds an ink file (extension
\* ink or ink2) at that path, with the same content.
C20_MirrorHoldsInkFiles ==
  \A m \in 1..Len(mirrors) :
    mirrors[m].phase = "done"
      => LET workspacePath == FsPath(mirrors[m].folder)
             tempDirectory == mirrors[m].tempDir
         IN  /\ \A q \in DOMAIN disk :
                  (IsPrefix(workspacePath, q) /\ q # workspacePath)
                    => /\ (Extension(AbsolutePath(q)).text \in {"ink", "ink2"})
                            <=> (MirrorPath(workspacePath, tempDirectory, q) \in DOMAIN disk)
                       /\ (Extension(AbsolutePath(q)).text \in {"ink", "ink2"})
                            => disk[MirrorPath(workspacePath, tempDirectory, q)] = disk[q]
             /\ \A t \in DOMAIN disk :
                  IsPrefix(tempDirectory, t)
                    => \E q \in DOMAIN disk :
                         /\ IsPrefix(workspacePath, q)
                         /\ MirrorPath(workspacePath, tempDirectory, q) = t

\* A project with main.ink, story/a.ink2 and .config has been mirrored: the
\* mirror holds the two ink files, the second in its subdirectory, and not
\* .config.
C20_Witness ==
  \E m \in 1..Len(mirrors) :
    /\ mirrors[m].phase = "done"
    /\ <<"ws", ".config">> \in DOMAIN disk
    /\ mirrors[m].tempDir \o <<"main.ink">> \in DOMAIN disk
    /\ mirrors[m].tempDir \o <<"story", "a.ink2">> \in DOMAIN disk
    /\ mirrors[m].tempDir \o <<".config">> \notin DOMAIN disk

\* Whether a workspace entry has the directory of the mirror m as its
\* temporary compilation directory.
Registered(m) ==
  \E i \in 1..Len(workspaceManager.workspaceDirectories) :
    /\ workspaceManager.workspaceDirectories[i].hasTempDir
    /\ workspaceManager.workspaceDirectories[i].tempDir = mirrors[m].tempDir

C22_OneEntryPerRoot ==
  LET wd == workspaceManager.workspaceDirectories
  IN  /\ \A i, j \in 1..Len(wd) : wd[i].uri = wd[j].uri => i = j
      /\ \A i \in 1..Len(wd) :
           wd[i].hasTempDir
             => \E m \in 1..Len(mirrors) :
                  /\ mirrors[m].phase = "done"
                  /\ mirrors[m].folder = wd[i].uri
                  /\ mirrors[m].tempDir = wd[i].tempDir

\* Two mirrors of the same folder have succeeded: there is one entry, with
\* the directory of the second.
C22_Witness ==
  \E m, n \in 1..Len(mirrors) :
    /\ m < n
    /\ mirrors[m].folder = mirrors[n].folder
    /\ mirrors[m].phase = "done" /\ mirrors[n].phase = "done"
    /\ Len(workspaceManager.workspaceDirectories) = 1
    /\ Registered(n)

\* The changes of a document, in the order the editor reported them.
ChangesOf(document) ==
  {q \in 1..Len(requests) : requests[q].kind = "change" /\ requests[q].path = FsPath(document)}

C24_LastEditWins ==
  LET changes == ChangesOf(MainDoc)
      last == CHOOSE q \in changes : \A n \in changes : n <= q
  IN  (changes # {} /\ \A q \in changes : requests[q].phase = "compiled")
        => disk[UpdatedPath(requests[last])] = requests[last].text

\* C25: a change that arrives while canCompile is false is dropped: it
\* starts no pass and no run and its text is never written, and there are
\* no more runs for changes than changes that arrived while canCompile was
\* true.
C25_NotReadyChangeDropped ==
  /\ \A q \in 1..Len(requests) :
       (requests[q].kind = "change" /\ ~requests[q].ready)
         => /\ requests[q].phase = "dropped"
            /\ requests[q].pass = 0 /\ requests[q].run = 0
            /\ \A t \in DOMAIN disk : disk[t] # requests[q].text
  /\ Cardinality({r \in Runs : procs[r].origin = "didChangeContent"})
       <= Cardinality({q \in 1..Len(requests) : requests[q].kind = "change" /\ requests[q].ready})

\* A change arrived before the workspace was mirrored and was dropped; the
\* workspace has been mirrored since and only the next change was written
\* and compiled.
C25_Witness ==
  \E q, n \in ChangesOf(MainDoc) :
    /\ q < n
    /\ ~requests[q].ready /\ requests[q].phase = "dropped"
    /\ workspaceManager.canCompile
    /\ requests[n].phase = "compiled"
    /\ disk[UpdatedPath(requests[n])] = requests[n].text
    /\ Cardinality({r \in Runs : procs[r].origin = "didChangeContent"}) = 1

\* C26: a request whose workspace is missing makes one call of
\* initializeInkWorkspaces, and it is aborted only if that call does not
\* mirror the workspace that holds its document.
C26_OneRemirrorThenProceed ==
  \A q \in 1..Len(requests) :
    requests[q].pass # 0
      => /\ Cardinality({p \in 1..Len(passes) : passes[p].request = q}) = 1
         /\ requests[q].phase = "aborted"
              => ~\E m \in 1..Len(mirrors) :
                    /\ mirrors[m].pass = requests[q].pass
                    /\ mirrors[m].phase = "done"
                    /\ isFilePathChildOfDirPath(AbsolutePath(requests[q].path),
                                                AbsolutePath(FsPath(mirrors[m].folder)))

\* C27: when the promise of a call of initializeInkWorkspaces has
\* settled, every mirror the call started has settled.
C27_PassAwaitsMirrors ==
  \A p \in 1..Len(passes) :
    passes[p].phase = "settled"
      => \A m \in 1..Len(mirrors) :
           mirrors[m].pass = p => mirrors[m].phase \in {"done", "failed"}

\* C28: a process is spawned only after the check of the binary has
\* called back with true.
C28_SpawnOnlyAfterBinaryCheck ==
  \A r \in Runs : Spawned(r) => binaryCheck = "true"

\* C29: every kind has its severity, Error for ERROR and RUNTIME ERROR,
\* Warning for WARNING and RUNTIME WARNING, Information for TODO, and the
\* message of a published diagnostic is that of the error, after "Todo: "
\* for a TODO.
C29_SeverityMapping ==
  (unitCall.function = "notifyClientAndPushDiagnostics" /\ unitCall.returned)
    => \A i \in 1..Len(openDocs) :
         LET document == openDocs[i]
             errors == SelectSeq(unitCall.arguments,
                                 LAMBDA e : e.filePath = FsPath(document))
             published == SelectSeq(sent,
                            LAMBDA m : /\ m.type = "textDocument/publishDiagnostics"
                                       /\ m.payload.uri = document)
         IN  /\ Len(published) = 1
             /\ Len(published[1].payload.diagnostics) = Len(errors)
             /\ \A k \in 1..Len(errors) :
                  LET diagnostic == published[1].payload.diagnostics[k]
                  IN  /\ errors[k].type \in {"ERROR", "RUNTIME ERROR"}
                           => diagnostic.severity = SeverityError
                      /\ errors[k].type \in {"WARNING", "RUNTIME WARNING"}
                           => diagnostic.severity = SeverityWarning
                      /\ errors[k].type = "TODO" => diagnostic.severity = SeverityInformation
                      /\ diagnostic.severity
                           \in {SeverityError, SeverityWarning, SeverityInformation}
                      /\ diagnostic.message =
                           (IF errors[k].type = "TODO" THEN <<"Todo: ", errors[k].message>>
                                                       ELSE <<errors[k].message>>)

\* A TODO and a RUNTIME WARNING of the main document have been published.
C29_Witness ==
  /\ unitCall.function = "notifyClientAndPushDiagnostics" /\ unitCall.returned
  /\ Len(unitCall.arguments) = 2
  /\ unitCall.arguments[1].type = "TODO" /\ unitCall.arguments[2].type = "RUNTIME WARNING"
  /\ \E i \in 1..Len(sent) :
       /\ sent[i].type = "textDocument/publishDiagnostics"
       /\ sent[i].payload.uri = MainDoc
       /\ Len(sent[i].payload.diagnostics) = 2
       /\ sent[i].payload.diagnostics[1].severity = SeverityInformation
       /\ sent[i].payload.diagnostics[1].message = <<"Todo: ", "text">>
       /\ sent[i].payload.diagnostics[2].severity = SeverityWarning
       /\ sent[i].payload.diagnostics[2].message = <<"text">>

\* C30: isFilePathChildOfDirPath(p, d) is true exactly when p, resolved,
\* is strictly inside the tree of d, resolved.
C30_ChildIffStrictlyInside ==
  (unitCall.function = "isFilePathChildOfDirPath" /\ unitCall.returned)
    => LET file == PathResolve(unitCall.arguments[1])
           dir == PathResolve(unitCall.arguments[2])
       IN  unitCall.result
             <=> (/\ file.root = dir.root
                  /\ IsPrefix(dir.segs, file.segs)
                  /\ file.segs # dir.segs)

\* The text after the last dot of the last name of a path is ink or ink2.
HasInkExtension(filePath) ==
  /\ filePath.segs # <<>>
  /\ LET pieces == SplitByDot(filePath.segs[Len(filePath.segs)])
     IN  Len(pieces) > 1 /\ pieces[Len(pieces)] \in {"ink", "ink2"}

\* C31 as stated: isInkFile returns false and logs one warning for every
\* path that does not exist.
C31_MissingPathRejected ==
  (unitCall.function = "isInkFile" /\ unitCall.returned
     /\ ~Exists(PathResolve(unitCall.arguments.filePath).segs))
    => (unitCall.result.value = FALSE /\ unitCall.result.warnings = 1)

\* C31, amended: isInkFile throws nothing; when directories are not allowed
\* it returns false with one warning for a path that does not exist and
\* false for a directory; in every other case, a path that does not exist
\* and directories are allowed included, it logs nothing and returns true
\* exactly when the extension after the last dot is ink or ink2, a name
\* equal to its own extension being rejected.
C31_IsInkFile ==
  (unitCall.function = "isInkFile" /\ unitCall.returned)
    => LET filePath == unitCall.arguments.filePath
           allowDirectories == unitCall.arguments.allowDirectories
           path == PathResolve(filePath).segs
       IN  /\ ~unitCall.result.thrown
           /\ (~allowDirectories /\ ~Exists(path))
                => (unitCall.result.value = FALSE /\ unitCall.result.warnings = 1)
           /\ (~allowDirectories /\ Exists(path) /\ IsDirectory(path))
                => (unitCall.result.value = FALSE /\ unitCall.result.warnings = 0)
           /\ (allowDirectories \/ (Exists(path) /\ ~IsDirectory(path)))
                => /\ unitCall.result.warnings = 0
                   /\ unitCall.result.value <=> HasInkExtension(filePath)

\* foo.bar.ink, which exists, was accepted with directories not allowed.
C31_Witness ==
  /\ unitCall.function = "isInkFile" /\ unitCall.returned
  /\ ~unitCall.arguments.allowDirectories
  /\ unitCall.arguments.filePath = AbsolutePath(<<"ws", "foo.bar.ink">>)
  /\ unitCall.result = [value |-> TRUE, warnings |-> 0, thrown |-> FALSE]

\* C32: the exit of a process that is no longer the occupant of the slot
\* leaves the slot as it is, with the newer process in it.
C32_StaleExitKeepsSlot ==
  [][\A r \in Runs :
       (Spawned(r) /\ ~procs[r].exited /\ procs'[r].exited /\ inklecateProcess # r)
         => inklecateProcess' = inklecateProcess]_vars

\* C33: a compile process is spawned for a document change only once the
\* write of the text of that change has completed successfully, and that
\* write puts the text in the temporary directory at the path the document
\* has below the root of its workspace.
C33_SpawnAfterWrite ==
  [][/\ \A r \in Runs :
          (procs[r].phase # "spawned" /\ procs'[r].phase = "spawned"
             /\ procs[r].origin = "didChangeContent")
            => \E q \in 1..Len(requests) :
                 /\ requests[q].kind = "change"
                 /\ requests[q].run = r
                 /\ requests[q].phase = "compiled"
     /\ \A q \in 1..Len(requests) :
          (requests[q].kind = "change" /\ requests[q].phase # "compiled"
             /\ requests'[q].phase = "compiled")
            => LET root == FsPath(workspaceManager.workspaceDirectories[requests[q].owner].uri)
                   target == requests[q].tempDir
                               \o SubSeq(requests[q].path, Len(root) + 1, Len(requests[q].path))
               IN  /\ requests[q].phase = "writeFile"
                   /\ IsPrefix(root, requests[q].path)
                   /\ requests[q].tempDir # <<>>
                   /\ target \in DOMAIN disk'
                   /\ disk'[target] = requests[q].text]_vars

\* A change of main.ink was written to the temporary directory and its
\* compile process was spawned.
C33_Witness ==
  \E r \in Runs, q \in 1..Len(requests) :
    /\ Spawned(r) /\ procs[r].origin = "didChangeContent"
    /\ requests[q].kind = "change" /\ requests[q].run = r /\ requests[q].phase = "compiled"
    /\ requests[q].path = FsPath(MainDoc)
    /\ requests[q].tempDir \o <<"main.ink">> \in DOMAIN disk
    /\ disk[requests[q].tempDir \o <<"main.ink">>] = requests[q].text

\* The diagnostics the client holds for a document: those of the last
\* publication for it, none before the first.
RECURSIVE HeldDiagnostics(_, _)
HeldDiagnostics(messages, document) ==
  IF messages = <<>> THEN <<>>
  ELSE LET last == messages[Len(messages)]
       IN  IF last.type = "textDocument/publishDiagnostics"
             THEN (IF last.payload.uri = document
                     THEN last.payload.diagnostics
                     ELSE HeldDiagnostics(SubSeq(messages, 1, Len(messages) - 1), document))
             ELSE HeldDiagnostics(SubSeq(messages, 1, Len(messages) - 1), document)

\* C34: when the compilation of a workspace ends, the diagnostics held for
\* the open documents of other workspaces stay as they are, and no more
\* didCompileStory is sent than the workspace has open documents.
C34_OtherWorkspaceUntouched ==
  [][\A r \in Runs :
       (~procs[r].closed /\ procs'[r].closed)
         => LET root == FsPath(procs[r].workspace.uri)
                inside == {i \in 1..Len(openDocs) : IsPrefix(root, FsPath(openDocs[i]))}
                compiled == {i \in (Len(sent) + 1)..Len(sent') :
                               sent'[i].type = "inkWorkspace/didCompileStory"}
            IN  /\ \A i \in (1..Len(openDocs)) \ inside :
                     HeldDiagnostics(sent', openDocs[i]) = HeldDiagnostics(sent, openDocs[i])
                /\ Cardinality(compiled) <= Cardinality(inside)]_vars

\* C35: didCompileStory is sent only by runs in compile mode, never by a
\* run in play mode, which gives the tool no output path.
C35_DidCompileStoryOnlyWhenCompiling ==
  \A i \in 1..Len(sent) :
    sent[i].type = "inkWorkspace/didCompileStory" => ~procs[sent[i].by].isPlaying

\* The lines of a text up to its first line of plain text.
RECURSIVE BeforePlainText(_)
BeforePlainText(lines) ==
  IF lines = <<>> \/ Head(lines).form = "text" THEN <<>>
  ELSE <<Head(lines)>> \o BeforePlainText(Tail(lines))

\* C36: in compile mode the errors returned for a text are those of the
\* diagnostic lines that come before its first line of plain text.
C36_PlainTextEndsCollection ==
  (unitCall.function = "parseErrorsOrRenderStory" /\ unitCall.returned
     /\ ~unitCall.arguments.isPlaying)
    => LET collected == SelectSeq(BeforePlainText(unitCall.arguments.lines),
                                  LAMBDA line : line.form = "diag")
       IN  /\ Len(unitCall.result.errors) = Len(collected)
           /\ \A k \in 1..Len(collected) :
                /\ unitCall.result.errors[k].message = collected[k].msg
                /\ unitCall.result.errors[k].lineNumber = collected[k].lineNo

\* The text of main.ink in the temporary directory its workspace has at
\* present, "absent" without such a file.
MirroredText(manager, files) ==
  LET entries == {i \in 1..Len(manager.workspaceDirectories) :
                    /\ manager.workspaceDirectories[i].uri = MirroredWorkspace.uri
                    /\ manager.workspaceDirectories[i].hasTempDir
                    /\ manager.workspaceDirectories[i].tempDir \o <<"main.ink">> \in DOMAIN files}
  IN  IF entries = {} THEN "absent"
      ELSE files[manager.workspaceDirectories[CHOOSE i \in entries : TRUE].tempDir
                   \o <<"main.ink">>]

\* The rank of a text among the edits of main.ink, 0 for what is no edit.
EditRank(text) ==
  LET edits == {q \in 1..Len(requests) :
                  /\ requests[q].kind = "change"
                  /\ requests[q].path = FsPath(MainDoc)
                  /\ requests[q].text = text}
  IN  IF edits = {} THEN 0 ELSE CHOOSE q \in edits : TRUE

\* C37: once the mirror holds an edit of main.ink, a step that is no write of
\* an edit, such as the end of a later mirroring of the workspace, leaves in
\* the current temporary directory a text that is no older.
C37_MirrorKeepsEdit ==
  [][(requests' = requests /\ EditRank(MirroredText(workspaceManager, disk)) > 0)
       => EditRank(MirroredText(workspaceManager', disk'))
            >= EditRank(MirroredText(workspaceManager, disk))]_vars

\* C38: once a run in play mode has been replaced, what its process, still
\* running, prints is not forwarded: every runtime notification sent comes
\* from the run spawned last.
C38_OnlyNewestRunForwarded ==
  [][\A i \in (Len(sent) + 1)..Len(sent') :
       sent'[i].type \in RuntimeNotifications
         => \A r \in Runs : Spawned(r) => procs[r].order <= procs[sent'[i].by].order]_vars

\* C39: the arguments of a spawned process are "-o", the main story path
\* in the temporary directory with ".json", then that path in compile mode,
\* "-p" then that path in play mode; when mono is required mono is the
\* command and the executable the first argument, else the executable is the
\* command; the storyUri of didCompileStory is the path given after "-o".
C39_ArgumentVector ==
  \A r \in Runs :
    Spawned(r)
      => LET settings == procs[r].settings
             main == procs[r].mainStoryTempPath
             output == [path |-> main, suffix |-> ".json"]
             shim == settings.runThroughMono \notin {"false", "", Undefined}
             args == procs[r].args
             first == IF shim THEN 1 ELSE 0
         IN  /\ Len(args) = first + (IF procs[r].isPlaying THEN 2 ELSE 3)
             /\ shim => /\ args[1] = settings.inklecateExecutablePath
                        /\ procs[r].command =
                             (IF settings.runThroughMono = "true" THEN "mono"
                                                                  ELSE settings.runThroughMono)
             /\ ~shim => procs[r].command = settings.inklecateExecutablePath
             /\ IF procs[r].isPlaying
                  THEN args[first + 1] = "-p" /\ args[first + 2] = main
                  ELSE /\ args[first + 1] = "-o"
                       /\ args[first + 2] = output
                       /\ args[first + 3] = main
             /\ \A i \in 1..Len(sent) :
                  (sent[i].type = "inkWorkspace/didCompileStory" /\ sent[i].by = r)
                    => sent[i].payload.storyUri = [scheme |-> "file", path |-> output]

\* A compilation through mono at /usr/bin/mono was spawned and announced its
\* story.
C39_Witness ==
  \E r \in Runs :
    /\ Spawned(r) /\ ~procs[r].isPlaying /\ procs[r].closed
    /\ procs[r].command = "/usr/bin/mono"
    /\ Len(procs[r].args) = 4
    /\ procs[r].args[1] = "inklecate" /\ procs[r].args[2] = "-o"
    /\ \E i \in 1..Len(sent) :
         /\ sent[i].type = "inkWorkspace/didCompileStory" /\ sent[i].by = r
         /\ sent[i].payload.storyUri.path = procs[r].args[3]

\* C40: checkPlatformAndDownloadBinaryDependency calls its callback once on
\* every path: never twice, and once when no operation of it is pending
\* any more.
C40_CallbackExactlyOnce ==
  unitCall.function = "checkPlatformAndDownloadBinaryDependency"
    => /\ Len(unitCall.result.callbacks) <= 1
       /\ unitCall.result.at = "done" => Len(unitCall.result.callbacks) = 1

====
